---- MODULE Spec2Model ----
(***************************************************************************)
(* NITLang interpreter (src/src/interpreter.py) as a state machine.        *)
(*                                                                         *)
(* The tree-walking evaluator is modelled at the granularity of one        *)
(* visit_* activation step: `kont` is the Python call stack of suspended   *)
(* visit_* activations (each frame holds the locals that activation has    *)
(* computed so far), `ctrl` is what the evaluator does next (visit a node, *)
(* hand a value to the caller, or propagate an exception).  Cell,          *)
(* Instance and Environment objects live in three heaps indexed by         *)
(* identity.                                                               *)
(***************************************************************************)
EXTENDS Integers, Sequences, FiniteSets, TLC

\* ------------------------------------------------------------------------
\* Bounds of the exploration
\* ------------------------------------------------------------------------
\* number of top-level interpret() calls made on one Interpreter object
MaxRuns == 1
\* largest magnitude of the integer operands of the arithmetic statements
MaxInt == 2
\* length of the token lists the parser is run on exhaustively
MaxTokens == 3

\* ------------------------------------------------------------------------
\* Runtime values; `t` is the Python type of the object (type(v).__name__)
\* ------------------------------------------------------------------------
IntV(i) == [t |-> "int", i |-> i]
BoolV(b) == [t |-> "bool", b |-> b]
StrV(s) == [t |-> "str", s |-> s]
InstV(o) == [t |-> "Instance", o |-> o]
NoneV == [t |-> "NoneType"]
\* a Cell object, by identity (index into `cells`)
CellV(c) == [t |-> "Cell", c |-> c]

\* ------------------------------------------------------------------------
\* AST nodes (src/src/ast_nodes.py); `k` is type(node).__name__
\* ------------------------------------------------------------------------
\* type_annotation = None
NoAnnotation == ""

\* the literal nodes hold the Python object the lexer built
Number(value) == [k |-> "Number", value |-> IntV(value)]
BoolLiteral(value) == [k |-> "BoolLiteral", value |-> BoolV(value)]
StringLiteral(value) == [k |-> "StringLiteral", value |-> StrV(value)]
Identifier(name) == [k |-> "Identifier", name |-> name]
BinaryOp(left, operator, right) ==
    [k |-> "BinaryOp", left |-> left, operator |-> operator, right |-> right]
Comparison(left, operator, right) ==
    [k |-> "Comparison", left |-> left, operator |-> operator, right |-> right]
IfExpr(condition, true_branch, false_branch) ==
    [k |-> "IfExpr", condition |-> condition, true_branch |-> true_branch,
     false_branch |-> false_branch]
LetStatement(name, type_annotation, value) ==
    [k |-> "LetStatement", name |-> name, type_annotation |-> type_annotation,
     value |-> value]
LetExpression(name, type_annotation, value, body) ==
    [k |-> "LetExpression", name |-> name, type_annotation |-> type_annotation,
     value |-> value, body |-> body]
Block(statements) == [k |-> "Block", statements |-> statements]
FunctionDef(name, params, body) ==
    [k |-> "FunctionDef", name |-> name, params |-> params, body |-> body]
FunctionCall(name, arguments) ==
    [k |-> "FunctionCall", name |-> name, arguments |-> arguments]
RefExpr(identifier) == [k |-> "RefExpr", identifier |-> identifier]
DerefExpr(identifier) == [k |-> "DerefExpr", identifier |-> identifier]
RefAssign(ref, value) == [k |-> "RefAssign", ref |-> ref, value |-> value]
FieldDef(name, type_annotation) ==
    [k |-> "FieldDef", name |-> name, type_annotation |-> type_annotation]
ClassDef(name, fields, methods) ==
    [k |-> "ClassDef", name |-> name, fields |-> fields, methods |-> methods]
NewExpr(class_name, arguments) ==
    [k |-> "NewExpr", class_name |-> class_name, arguments |-> arguments]
MemberAccess(obj, member_name) ==
    [k |-> "MemberAccess", obj |-> obj, member_name |-> member_name]
MethodCall(obj, method_name, arguments) ==
    [k |-> "MethodCall", obj |-> obj, method_name |-> method_name,
     arguments |-> arguments]
Assign(target, value) == [k |-> "Assign", target |-> target, value |-> value]

\* a raised Exception, by the kind of its message
Exc(msg) == [exc |-> msg]
IsExc(r) == "exc" \in DOMAIN r

\* dict helpers
EmptyDict == [n \in {} |-> 0]
DictSet(d, key, v) == [n \in (DOMAIN d) \cup {key} |-> IF n = key THEN v ELSE d[n]]

\* heap of Cell objects: cells[c] is Cell.value of the Cell with identity c
VARIABLE cells
\* heap of Instance objects: [class_def, fields: name -> Cell]
VARIABLE instances
\* heap of Environment objects: [parent, functions, variables, classes]
VARIABLE envs
\* Interpreter.current_env
VARIABLE current_env
\* what the evaluator does next: visit a node, return a value, raise
VARIABLE ctrl
\* suspended visit_* activations, innermost last
VARIABLE kont
\* interpret() calls made so far
VARIABLE runs

vars == <<cells, instances, envs, current_env, ctrl, kont, runs>>

\* Interpreter.global_env: the first Environment ever created
global_env == 1

\* Environment.__init__
Environment(parent) ==
    [parent |-> parent, functions |-> EmptyDict, variables |-> EmptyDict,
     classes |-> EmptyDict]

\* ------------------------------------------------------------------------
\* Helpers of Interpreter and Environment
\* ------------------------------------------------------------------------
\* Interpreter._unwrap, reading the heap cs
_unwrap(cs, v) == IF v.t = "Cell" THEN cs[v.c] ELSE v

\* Interpreter._type_name of an unwrapped value, reading the instance heap
_type_name(is, v) ==
    CASE v.t = "bool" -> "bool"
      [] v.t = "int" -> "int"
      [] v.t = "str" -> "string"
      [] v.t = "Instance" -> is[v.o].class_def.name
      [] OTHER -> "unknown"

\* type(a) is type(b)
SameType(a, b) == a.t = b.t

\* Interpreter.default_value_for_type
default_value_for_type(tname) ==
    CASE tname = "int" -> IntV(0)
      [] tname = "bool" -> BoolV(FALSE)
      [] tname = "string" -> StrV("")
      [] OTHER -> NoneV

\* Interpreter.check_type: TRUE when no exception is raised
check_type(cs, is, annotation, value) ==
    \/ annotation = NoAnnotation
    \/ _type_name(is, _unwrap(cs, value)) = annotation

\* Environment.get_cell; 0 stands for the raised "Undefined variable"
RECURSIVE get_cell(_, _, _)
get_cell(es, e, name) ==
    IF name \in DOMAIN es[e].variables THEN es[e].variables[name]
    ELSE IF es[e].parent # 0 THEN get_cell(es, es[e].parent, name)
    ELSE 0

\* Environment.get_function; the result is an Exc when the lookup raises
RECURSIVE get_function(_, _, _)
get_function(es, e, name) ==
    IF name \in DOMAIN es[e].functions THEN es[e].functions[name]
    ELSE IF es[e].parent # 0 THEN get_function(es, es[e].parent, name)
    ELSE Exc("Undefined function")

\* Environment.get_class
RECURSIVE get_class(_, _, _)
get_class(es, e, name) ==
    IF name \in DOMAIN es[e].classes THEN es[e].classes[name]
    ELSE IF es[e].parent # 0 THEN get_class(es, es[e].parent, name)
    ELSE Exc("Undefined class")

\* Interpreter._find_method: first method of that name, or None (NoneV)
_find_method(class_def, name) ==
    LET hits == {i \in DOMAIN class_def.methods : class_def.methods[i].name = name}
    IN IF hits = {} THEN NoneV
       ELSE class_def.methods[CHOOSE i \in hits : \A j \in hits : i <= j]

\* Interpreter._find_field_def
_find_field_def(class_def, field_name) ==
    LET hits == {i \in DOMAIN class_def.fields : class_def.fields[i].name = field_name}
    IN IF hits = {} THEN NoneV
       ELSE class_def.fields[CHOOSE i \in hits : \A j \in hits : i <= j]


IsNone(x) == "t" \in DOMAIN x /\ x.t = "NoneType"

\* str(v) as used by the f-strings that build acknowledgement messages
\* (Instance.__repr__ is rendered without its field dict)
py_str(is, v) ==
    CASE v.t = "int" -> ToString(v.i)
      [] v.t = "bool" -> (IF v.b THEN "True" ELSE "False")
      [] v.t = "str" -> v.s
      [] v.t = "Instance" -> "<Instance " \o is[v.o].class_def.name \o ">"
      [] OTHER -> "None"

\* define_variable that always wraps a copy of the value in a new Cell
define_variable_copy(cs, es, e, name, value) ==
    [cells |-> Append(cs, _unwrap(cs, value)),
     envs |-> [es EXCEPT ![e].variables = DictSet(@, name, Len(cs) + 1)]]

\* define_variable binding in the global frame instead of frame e
define_variable_global(cs, es, e, name, value) ==
    IF value.t = "Cell"
    THEN [cells |-> cs,
          envs |-> [es EXCEPT ![global_env].variables = DictSet(@, name, value.c)]]
    ELSE [cells |-> Append(cs, value),
          envs |-> [es EXCEPT ![global_env].variables = DictSet(@, name, Len(cs) + 1)]]

\* define_variable that wraps whatever it is given, a Cell included
define_variable_wrap(cs, es, e, name, value) ==
    [cells |-> Append(cs, value),
     envs |-> [es EXCEPT ![e].variables = DictSet(@, name, Len(cs) + 1)]]

\* Environment.define_variable on Environment e: a Cell is stored as it is,
\* anything else is wrapped in a new Cell.  Yields the new heaps.
define_variable(cs, es, e, name, value) ==
    IF value.t = "Cell"
    THEN [cells |-> cs, envs |-> [es EXCEPT ![e].variables = DictSet(@, name, value.c)]]
    ELSE [cells |-> Append(cs, value),
          envs |-> [es EXCEPT ![e].variables = DictSet(@, name, Len(cs) + 1)]]

\* parameters bound to the values of the arguments (call by value)
RECURSIVE bind_params_by_value(_, _, _, _, _)
bind_params_by_value(st, e, params, arg_values, i) ==
    IF i > Len(params) \/ i > Len(arg_values) THEN st
    ELSE bind_params_by_value(
             define_variable(st.cells, st.envs, e, params[i],
                             _unwrap(st.cells, arg_values[i])),
             e, params, arg_values, i + 1)

\* the loops `for pname, pval in zip(params, arg_values): env.define_variable(pname, pval)`
RECURSIVE bind_params(_, _, _, _, _)
bind_params(st, e, params, arg_values, i) ==
    IF i > Len(params) \/ i > Len(arg_values) THEN st
    ELSE bind_params(define_variable(st.cells, st.envs, e, params[i], arg_values[i]),
                     e, params, arg_values, i + 1)

\* define_function registering in the frame that is current
define_function_local(es, e, name, func_def) ==
    [es EXCEPT ![current_env].functions = DictSet(@, name, func_def)]

\* Environment.define_function / Environment.define_class on Environment e
define_function(es, e, name, func_def) ==
    [es EXCEPT ![e].functions = DictSet(@, name, func_def)]

define_class(es, e, name, class_def) ==
    [es EXCEPT ![e].classes = DictSet(@, name, class_def)]

\* a call frame parented at the caller's frame (dynamic scoping)
NewCallEnv_dynamic(es) == Append(es, Environment(current_env))

\* the Environment a function, method or constructor body runs in:
\* Environment(parent=self.global_env)
NewCallEnv(es) == Append(es, Environment(global_env))

\* an identifier resolved to a field of `self` before the variables
visit_Identifier_result_field_first(cs, es, is, env, name) ==
    LET c == get_cell(es, env, name)
        self_cell == get_cell(es, env, "self")
    IN IF /\ self_cell # 0
          /\ cs[self_cell].t = "Instance"
          /\ name \in DOMAIN is[cs[self_cell].o].fields
       THEN CellV(is[cs[self_cell].o].fields[name])
       ELSE IF c # 0 THEN CellV(c)
       ELSE IF self_cell = 0 THEN Exc("Undefined variable")
       ELSE Exc("Undefined variable or field")

\* Interpreter.visit_Identifier: variable first, then a field of `self`
visit_Identifier_result(cs, es, is, env, name) ==
    LET c == get_cell(es, env, name)
        self_cell == get_cell(es, env, "self")
    IN IF c # 0 THEN CellV(c)
       ELSE IF self_cell = 0 THEN Exc("Undefined variable")
       ELSE LET inst == cs[self_cell]
            IN IF inst.t = "Instance" /\ name \in DOMAIN is[inst.o].fields
               THEN CellV(is[inst.o].fields[name])
               ELSE Exc("Undefined variable or field")

\* floor division left // right for right # 0
\* a quotient rounded toward zero
TruncDiv(a, b) ==
    LET abs(x) == IF x < 0 THEN 0 - x ELSE x
        q == abs(a) \div abs(b)
    IN IF (a < 0) = (b < 0) THEN q ELSE 0 - q

\* Python's `//` on ints: the quotient rounded toward negative infinity
FloorDiv(a, b) ==
    IF b > 0 THEN a \div b
    ELSE (0 - a) \div (0 - b)

\* arithmetic that takes a bool for the int it is in Python (isinstance)
BinaryOp_result_isinstance(operator, left_val, right_val) ==
    LET num(v) == IF v.t = "bool" THEN (IF v.b THEN 1 ELSE 0) ELSE v.i
    IN IF left_val.t \notin {"int", "bool"} THEN Exc("Type error in arithmetic")
       ELSE IF right_val.t \notin {"int", "bool"} THEN Exc("Type error in arithmetic")
       ELSE CASE operator = "PLUS" -> IntV(num(left_val) + num(right_val))
              [] operator = "MINUS" -> IntV(num(left_val) - num(right_val))
              [] operator = "MULTIPLY" -> IntV(num(left_val) * num(right_val))
              [] operator = "DIVIDE" ->
                   IF num(right_val) = 0 THEN Exc("Division by zero")
                   ELSE IntV(FloorDiv(num(left_val), num(right_val)))
              [] OTHER -> Exc("Unknown binary operator")

\* Interpreter.visit_BinaryOp once both operands are unwrapped
BinaryOp_result(operator, left_val, right_val) ==
    IF left_val.t # "int" THEN Exc("Type error in arithmetic")
    ELSE IF right_val.t # "int" THEN Exc("Type error in arithmetic")
    ELSE CASE operator = "PLUS" -> IntV(left_val.i + right_val.i)
           [] operator = "MINUS" -> IntV(left_val.i - right_val.i)
           [] operator = "MULTIPLY" -> IntV(left_val.i * right_val.i)
           [] operator = "DIVIDE" ->
                IF right_val.i = 0 THEN Exc("Division by zero")
                ELSE IntV(FloorDiv(left_val.i, right_val.i))
           [] OTHER -> Exc("Unknown binary operator")

\* Interpreter.visit_Comparison once both operands are unwrapped
Comparison_result(operator, left_val, right_val) ==
    IF ~SameType(left_val, right_val) THEN Exc("Type error in comparison")
    ELSE IF operator = "EQUALS" THEN (IF left_val = right_val THEN IntV(1) ELSE IntV(0))
    ELSE Exc("Unknown comparison operator")

\* a condition taken by Python truthiness, whatever its type
IfExpr_cond_truthy(condition_val) ==
    CASE condition_val.t = "bool" -> BoolV(condition_val.b)
      [] condition_val.t = "int" -> BoolV(condition_val.i # 0)
      [] condition_val.t = "str" -> BoolV(condition_val.s # "")
      [] condition_val.t = "NoneType" -> BoolV(FALSE)
      [] OTHER -> BoolV(TRUE)

\* Interpreter.visit_IfExpr: the truth of the unwrapped condition
IfExpr_cond(condition_val) ==
    CASE condition_val.t = "bool" -> BoolV(condition_val.b)
      [] condition_val.t = "int" -> BoolV(condition_val.i # 0)
      [] OTHER -> Exc("Type error in if condition")

\* a field check against the tag of the value the field holds now
field_type_ok_stored(cs, is, inst, name, value) ==
    _type_name(is, cs[is[inst.o].fields[name]]) = _type_name(is, value)

\* the declared-annotation check of a field assignment
field_type_ok(cs, is, inst, name, value) ==
    LET field_def == _find_field_def(is[inst.o].class_def, name)
    IN \/ IsNone(field_def)
       \/ field_def.type_annotation = NoAnnotation
       \/ field_def.type_annotation = _type_name(is, value)

\* visit_Assign, MemberAccess target, once value and obj_val are known:
\* yields the new cell heap and the returned value or raised exception
assign_member(cs, is, obj_val, field_name, value) ==
    IF obj_val.t # "Instance"
    THEN [cells |-> cs, out |-> Exc("Member assignment on non-object value")]
    ELSE IF field_name \notin DOMAIN is[obj_val.o].fields
    THEN [cells |-> cs, out |-> Exc("Unknown field")]
    ELSE IF ~field_type_ok(cs, is, obj_val, field_name, value)
    THEN [cells |-> cs, out |-> Exc("Type error")]
    ELSE [cells |-> [cs EXCEPT ![is[obj_val.o].fields[field_name]] = value],
          out |-> value]

\* visit_Assign, Identifier target, the except-branch: the field of `self`
assign_self_field(cs, es, is, env, name, value) ==
    LET self_cell == get_cell(es, env, "self")
    IN IF self_cell = 0 THEN [cells |-> cs, out |-> Exc("Undefined variable")]
       ELSE LET inst == cs[self_cell]
            IN IF inst.t # "Instance"
               THEN [cells |-> cs, out |-> Exc("Undefined variable")]
               ELSE IF name \notin DOMAIN is[inst.o].fields
               THEN [cells |-> cs, out |-> Exc("Unknown field")]
               ELSE IF ~field_type_ok(cs, is, inst, name, value)
               THEN [cells |-> cs, out |-> Exc("Type error")]
               ELSE [cells |-> [cs EXCEPT ![is[inst.o].fields[name]] = value],
                     out |-> value]

\* visit_Assign, Identifier target: the try-block writes the variable's cell;
\* whatever it raises (the failed lookup and the type error alike) is caught
\* by `except Exception` and the field of `self` is tried instead
assign_identifier(cs, es, is, env, name, value) ==
    LET c == get_cell(es, env, name)
    IN IF c # 0 /\ SameType(cs[c], value)
       THEN [cells |-> [cs EXCEPT ![c] = value], out |-> value]
       ELSE assign_self_field(cs, es, is, env, name, value)

\* visit_RefAssign once the new value is known
RefAssign_result(cs, cell, old_value, new_value) ==
    IF ~SameType(old_value, new_value)
    THEN [cells |-> cs, out |-> Exc("Type error")]
    ELSE [cells |-> [cs EXCEPT ![cell] = new_value], out |-> new_value]

\* an instance that gets a cell only for the fields declared with a type
RECURSIVE init_fields_annotated(_, _, _, _)
init_fields_annotated(cs, fields, field_defs, i) ==
    IF i > Len(field_defs) THEN [cells |-> cs, fields |-> fields]
    ELSE IF field_defs[i].type_annotation = NoAnnotation
    THEN init_fields_annotated(cs, fields, field_defs, i + 1)
    ELSE init_fields_annotated(
             Append(cs, default_value_for_type(field_defs[i].type_annotation)),
             DictSet(fields, field_defs[i].name, Len(cs) + 1), field_defs, i + 1)

\* fields that all start unset, whatever their declared type
RECURSIVE init_fields_unset(_, _, _, _)
init_fields_unset(cs, fields, field_defs, i) ==
    IF i > Len(field_defs) THEN [cells |-> cs, fields |-> fields]
    ELSE init_fields_unset(Append(cs, NoneV),
                           DictSet(fields, field_defs[i].name, Len(cs) + 1),
                           field_defs, i + 1)

\* visit_NewExpr: `for field in class_def.fields: inst.fields[field.name] = Cell(default)`
RECURSIVE init_fields(_, _, _, _)
init_fields(cs, fields, field_defs, i) ==
    IF i > Len(field_defs) THEN [cells |-> cs, fields |-> fields]
    ELSE init_fields(Append(cs, default_value_for_type(field_defs[i].type_annotation)),
                     DictSet(fields, field_defs[i].name, Len(cs) + 1),
                     field_defs, i + 1)


\* ------------------------------------------------------------------------
\* The evaluator
\* ------------------------------------------------------------------------
Top == kont[Len(kont)]
Below == SubSeq(kont, 1, Len(kont) - 1)

Visiting(kind) == ctrl.m = "eval" /\ ctrl.node.k = kind
\* the activation (kind, pc) is resumed with the value of the visit it made
Resumed(kind, pc) ==
    ctrl.m = "ret" /\ Len(kont) > 0 /\ Top.k = kind /\ Top.pc = pc
\* an exception reaches the try/finally of the activation (kind, pc)
Unwinding(kind, pc) ==
    ctrl.m = "exc" /\ Len(kont) > 0 /\ Top.k = kind /\ Top.pc = pc

Eval(node) == [m |-> "eval", node |-> node]
Ret(val) == [m |-> "ret", val |-> val]
Raise(msg) == [m |-> "exc", msg |-> msg]
\* hand r to the caller: a value is returned, an Exc is raised
Out(r) == IF IsExc(r) THEN Raise(r.exc) ELSE Ret(r)

\* Interpreter.__init__
Init ==
    /\ cells = <<>>
    /\ instances = <<>>
    /\ envs = <<Environment(0)>>
    /\ current_env = global_env
    /\ ctrl = [m |-> "idle"]
    /\ kont = <<>>
    /\ runs = 0

\* visit_Number, visit_BoolLiteral, visit_StringLiteral
visit_Number ==
    /\ Visiting("Number")
    /\ ctrl' = Ret(ctrl.node.value)
    /\ UNCHANGED <<cells, instances, envs, current_env, kont, runs>>

visit_BoolLiteral ==
    /\ Visiting("BoolLiteral")
    /\ ctrl' = Ret(ctrl.node.value)
    /\ UNCHANGED <<cells, instances, envs, current_env, kont, runs>>

visit_StringLiteral ==
    /\ Visiting("StringLiteral")
    /\ ctrl' = Ret(ctrl.node.value)
    /\ UNCHANGED <<cells, instances, envs, current_env, kont, runs>>

visit_Identifier ==
    /\ Visiting("Identifier")
    /\ ctrl' = Out(visit_Identifier_result(cells, envs, instances, current_env,
                                           ctrl.node.name))
    /\ UNCHANGED <<cells, instances, envs, current_env, kont, runs>>

visit_BinaryOp ==
    \/ /\ Visiting("BinaryOp")
       /\ kont' = Append(kont, [k |-> "BinaryOp", pc |-> "left", node |-> ctrl.node])
       /\ ctrl' = Eval(ctrl.node.left)
       /\ UNCHANGED <<cells, instances, envs, current_env, runs>>
    \/ /\ Resumed("BinaryOp", "left")
       /\ kont' = Append(Below, [k |-> "BinaryOp", pc |-> "right", node |-> Top.node,
                                 left_val |-> _unwrap(cells, ctrl.val)])
       /\ ctrl' = Eval(Top.node.right)
       /\ UNCHANGED <<cells, instances, envs, current_env, runs>>
    \/ /\ Resumed("BinaryOp", "right")
       /\ kont' = Below
       /\ ctrl' = Out(BinaryOp_result(Top.node.operator, Top.left_val,
                                      _unwrap(cells, ctrl.val)))
       /\ UNCHANGED <<cells, instances, envs, current_env, runs>>

visit_Comparison ==
    \/ /\ Visiting("Comparison")
       /\ kont' = Append(kont, [k |-> "Comparison", pc |-> "left", node |-> ctrl.node])
       /\ ctrl' = Eval(ctrl.node.left)
       /\ UNCHANGED <<cells, instances, envs, current_env, runs>>
    \/ /\ Resumed("Comparison", "left")
       /\ kont' = Append(Below, [k |-> "Comparison", pc |-> "right", node |-> Top.node,
                                 left_val |-> _unwrap(cells, ctrl.val)])
       /\ ctrl' = Eval(Top.node.right)
       /\ UNCHANGED <<cells, instances, envs, current_env, runs>>
    \/ /\ Resumed("Comparison", "right")
       /\ kont' = Below
       /\ ctrl' = Out(Comparison_result(Top.node.operator, Top.left_val,
                                        _unwrap(cells, ctrl.val)))
       /\ UNCHANGED <<cells, instances, envs, current_env, runs>>

visit_IfExpr ==
    \/ /\ Visiting("IfExpr")
       /\ kont' = Append(kont, [k |-> "IfExpr", pc |-> "condition", node |-> ctrl.node])
       /\ ctrl' = Eval(ctrl.node.condition)
       /\ UNCHANGED <<cells, instances, envs, current_env, runs>>
    \/ /\ Resumed("IfExpr", "condition")
       /\ LET cond == IfExpr_cond(_unwrap(cells, ctrl.val))
          IN /\ kont' = Below
             /\ ctrl' = IF IsExc(cond) THEN Raise(cond.exc)
                        ELSE IF cond.b THEN Eval(Top.node.true_branch)
                        ELSE Eval(Top.node.false_branch)
       /\ UNCHANGED <<cells, instances, envs, current_env, runs>>

visit_LetStatement ==
    \/ /\ Visiting("LetStatement")
       /\ kont' = Append(kont, [k |-> "LetStatement", pc |-> "value", node |-> ctrl.node])
       /\ ctrl' = Eval(ctrl.node.value)
       /\ UNCHANGED <<cells, instances, envs, current_env, runs>>
    \/ /\ Resumed("LetStatement", "value")
       /\ kont' = Below
       /\ IF ~check_type(cells, instances, Top.node.type_annotation, ctrl.val)
          THEN /\ ctrl' = Raise("Type error")
               /\ UNCHANGED <<cells, envs>>
          ELSE LET st == define_variable(cells, envs, current_env, Top.node.name, ctrl.val)
               IN /\ cells' = st.cells
                  /\ envs' = st.envs
                  /\ ctrl' = Ret(StrV("Variable '" \o Top.node.name \o "' = "
                                      \o py_str(instances, _unwrap(cells, ctrl.val))))
       /\ UNCHANGED <<instances, current_env, runs>>

visit_LetExpression ==
    \/ /\ Visiting("LetExpression")
       /\ kont' = Append(kont, [k |-> "LetExpression", pc |-> "value", node |-> ctrl.node])
       /\ ctrl' = Eval(ctrl.node.value)
       /\ UNCHANGED <<cells, instances, envs, current_env, runs>>
    \/ /\ Resumed("LetExpression", "value")
       /\ IF ~check_type(cells, instances, Top.node.type_annotation, ctrl.val)
          THEN /\ kont' = Below
               /\ ctrl' = Raise("Type error")
               /\ UNCHANGED <<cells, envs, current_env>>
          ELSE LET new_env == Len(envs) + 1
                   st == define_variable(cells, Append(envs, Environment(current_env)),
                                         new_env, Top.node.name, ctrl.val)
               IN /\ cells' = st.cells
                  /\ envs' = st.envs
                  /\ current_env' = new_env
                  /\ kont' = Append(Below, [k |-> "LetExpression", pc |-> "body",
                                            node |-> Top.node, env |-> new_env,
                                            previous_env |-> current_env])
                  /\ ctrl' = Eval(Top.node.body)
       /\ UNCHANGED <<instances, runs>>
    \/ \* finally: self.current_env = previous_env
       /\ Resumed("LetExpression", "body") \/ Unwinding("LetExpression", "body")
       /\ current_env' = Top.previous_env
       /\ kont' = Below
       /\ UNCHANGED <<cells, instances, envs, ctrl, runs>>

visit_FunctionDef ==
    /\ Visiting("FunctionDef")
    /\ envs' = define_function(envs, global_env, ctrl.node.name, ctrl.node)
    /\ ctrl' = Ret(StrV("Function '" \o ctrl.node.name \o "' defined"))
    /\ UNCHANGED <<cells, instances, current_env, kont, runs>>

visit_ClassDef ==
    /\ Visiting("ClassDef")
    /\ envs' = define_class(envs, global_env, ctrl.node.name, ctrl.node)
    /\ ctrl' = Ret(StrV("Class '" \o ctrl.node.name \o "' defined"))
    /\ UNCHANGED <<cells, instances, current_env, kont, runs>>

\* a block that opens a child frame for its statements and drops it at the end
visit_Block_scoped ==
    \/ /\ Visiting("Block")
       /\ IF Len(ctrl.node.statements) = 0
          THEN /\ ctrl' = Ret(NoneV)
               /\ UNCHANGED <<kont, envs, current_env>>
          ELSE /\ kont' = Append(kont, [k |-> "Block", pc |-> "stmt", node |-> ctrl.node,
                                        idx |-> 1, previous_env |-> current_env])
               /\ envs' = Append(envs, Environment(current_env))
               /\ current_env' = Len(envs) + 1
               /\ ctrl' = Eval(ctrl.node.statements[1])
       /\ UNCHANGED <<cells, instances, runs>>
    \/ /\ Resumed("Block", "stmt")
       /\ IF Top.idx < Len(Top.node.statements)
          THEN /\ kont' = Append(Below, [Top EXCEPT !.idx = @ + 1])
               /\ ctrl' = Eval(Top.node.statements[Top.idx + 1])
               /\ current_env' = current_env
          ELSE /\ kont' = Below
               /\ ctrl' = Ret(ctrl.val)
               /\ current_env' = Top.previous_env
       /\ UNCHANGED <<cells, instances, envs, runs>>

visit_Block ==
    \/ /\ Visiting("Block")
       /\ IF Len(ctrl.node.statements) = 0
          THEN /\ ctrl' = Ret(NoneV)
               /\ kont' = kont
          ELSE /\ kont' = Append(kont, [k |-> "Block", pc |-> "stmt", node |-> ctrl.node,
                                        idx |-> 1])
               /\ ctrl' = Eval(ctrl.node.statements[1])
       /\ UNCHANGED <<cells, instances, envs, current_env, runs>>
    \/ /\ Resumed("Block", "stmt")
       /\ IF Top.idx < Len(Top.node.statements)
          THEN /\ kont' = Append(Below, [Top EXCEPT !.idx = @ + 1])
               /\ ctrl' = Eval(Top.node.statements[Top.idx + 1])
          ELSE /\ kont' = Below
               /\ ctrl' = Ret(ctrl.val)
       /\ UNCHANGED <<cells, instances, envs, current_env, runs>>

visit_RefExpr ==
    /\ Visiting("RefExpr")
    /\ LET c == get_cell(envs, current_env, ctrl.node.identifier.name)
       IN ctrl' = IF c = 0 THEN Raise("Undefined variable") ELSE Ret(CellV(c))
    /\ UNCHANGED <<cells, instances, envs, current_env, kont, runs>>

visit_DerefExpr ==
    /\ Visiting("DerefExpr")
    /\ LET c == get_cell(envs, current_env, ctrl.node.identifier.name)
       IN ctrl' = IF c = 0 THEN Raise("Undefined variable") ELSE Ret(cells[c])
    /\ UNCHANGED <<cells, instances, envs, current_env, kont, runs>>

visit_RefAssign ==
    \/ /\ Visiting("RefAssign")
       /\ kont' = Append(kont, [k |-> "RefAssign", pc |-> "ref", node |-> ctrl.node])
       /\ ctrl' = Eval(ctrl.node.ref)
       /\ UNCHANGED <<cells, instances, envs, current_env, runs>>
    \/ /\ Resumed("RefAssign", "ref")
       /\ IF ctrl.val.t # "Cell"
          THEN /\ kont' = Below
               /\ ctrl' = Raise("Ref assignment target is not a reference")
          ELSE /\ kont' = Append(Below, [k |-> "RefAssign", pc |-> "value",
                                         node |-> Top.node, cell |-> ctrl.val.c,
                                         old_value |-> cells[ctrl.val.c]])
               /\ ctrl' = Eval(Top.node.value)
       /\ UNCHANGED <<cells, instances, envs, current_env, runs>>
    \/ /\ Resumed("RefAssign", "value")
       /\ LET r == RefAssign_result(cells, Top.cell, Top.old_value,
                                    _unwrap(cells, ctrl.val))
          IN /\ cells' = r.cells
             /\ ctrl' = Out(r.out)
       /\ kont' = Below
       /\ UNCHANGED <<instances, envs, current_env, runs>>


\* the common tail of visit_FunctionCall, visit_NewExpr and visit_MethodCall:
\* a new Environment parented at global_env, the names bound in order, the
\* body visited there while `frame` waits in its try/finally
InvokeBody(cs, base, frame, names, values, body) ==
    LET st == bind_params([cells |-> cs, envs |-> NewCallEnv(envs)],
                          Len(envs) + 1, names, values, 1)
    IN /\ cells' = st.cells
       /\ envs' = st.envs
       /\ current_env' = Len(envs) + 1
       /\ kont' = Append(base, frame)
       /\ ctrl' = Eval(body)

\* a call that binds as many parameters as there are arguments (zip) and
\* runs the body whatever the counts are
FunctionCall_invoke_lenient(base, node, func_def, arg_values) ==
    LET n == IF Len(arg_values) < Len(func_def.params) THEN Len(arg_values)
             ELSE Len(func_def.params)
    IN InvokeBody(cells, base,
                  [k |-> "FunctionCall", pc |-> "body", node |-> node,
                   env |-> Len(envs) + 1, previous_env |-> current_env],
                  SubSeq(func_def.params, 1, n), SubSeq(arg_values, 1, n),
                  func_def.body)

\* visit_FunctionCall from the arity check on, arg_values being complete
FunctionCall_invoke(base, node, func_def, arg_values) ==
    IF Len(arg_values) # Len(func_def.params)
    THEN /\ kont' = base
         /\ ctrl' = Raise("expects arguments")
         /\ UNCHANGED <<cells, envs, current_env>>
    ELSE InvokeBody(cells, base,
                    [k |-> "FunctionCall", pc |-> "body", node |-> node,
                     env |-> Len(envs) + 1, previous_env |-> current_env],
                    func_def.params, arg_values, func_def.body)

visit_FunctionCall ==
    \/ /\ Visiting("FunctionCall")
       /\ LET func_def == get_function(envs, global_env, ctrl.node.name)
          IN IF IsExc(func_def)
             THEN /\ ctrl' = Raise(func_def.exc)
                  /\ UNCHANGED <<cells, envs, current_env, kont>>
             ELSE IF Len(ctrl.node.arguments) = 0
             THEN FunctionCall_invoke(kont, ctrl.node, func_def, <<>>)
             ELSE /\ kont' = Append(kont, [k |-> "FunctionCall", pc |-> "args",
                                           node |-> ctrl.node, func_def |-> func_def,
                                           arg_values |-> <<>>])
                  /\ ctrl' = Eval(ctrl.node.arguments[1])
                  /\ UNCHANGED <<cells, envs, current_env>>
       /\ UNCHANGED <<instances, runs>>
    \/ /\ Resumed("FunctionCall", "args")
       /\ LET arg_values == Append(Top.arg_values, ctrl.val)
          IN IF Len(arg_values) < Len(Top.node.arguments)
             THEN /\ kont' = Append(Below, [Top EXCEPT !.arg_values = arg_values])
                  /\ ctrl' = Eval(Top.node.arguments[Len(arg_values) + 1])
                  /\ UNCHANGED <<cells, envs, current_env>>
             ELSE FunctionCall_invoke(Below, Top.node, Top.func_def, arg_values)
       /\ UNCHANGED <<instances, runs>>
    \/ \* finally: self.current_env = previous_env
       /\ Resumed("FunctionCall", "body") \/ Unwinding("FunctionCall", "body")
       /\ current_env' = Top.previous_env
       /\ kont' = Below
       /\ UNCHANGED <<cells, instances, envs, ctrl, runs>>

\* visit_NewExpr from the constructor's arity check on
NewExpr_invoke(cs, base, node, inst, init_method, arg_values) ==
    IF Len(arg_values) # Len(init_method.params)
    THEN /\ kont' = base
         /\ ctrl' = Raise("expects arguments")
         /\ cells' = cs
         /\ UNCHANGED <<envs, current_env>>
    ELSE InvokeBody(cs, base,
                    [k |-> "NewExpr", pc |-> "body", node |-> node, inst |-> inst,
                     env |-> Len(envs) + 1, previous_env |-> current_env],
                    <<"self">> \o init_method.params, <<InstV(inst)>> \o arg_values,
                    init_method.body)

visit_NewExpr ==
    \/ /\ Visiting("NewExpr")
       /\ LET class_def == get_class(envs, global_env, ctrl.node.class_name)
          IN IF IsExc(class_def)
             THEN /\ ctrl' = Raise(class_def.exc)
                  /\ UNCHANGED <<cells, instances, envs, current_env, kont>>
             ELSE LET inst == Len(instances) + 1
                      fs == init_fields(cells, EmptyDict, class_def.fields, 1)
                      init_method == _find_method(class_def, "init")
                  IN /\ instances' = Append(instances, [class_def |-> class_def,
                                                        fields |-> fs.fields])
                     /\ IF ~IsNone(init_method)
                        THEN IF Len(ctrl.node.arguments) = 0
                             THEN NewExpr_invoke(fs.cells, kont, ctrl.node, inst,
                                                 init_method, <<>>)
                             ELSE /\ kont' = Append(kont,
                                        [k |-> "NewExpr", pc |-> "args",
                                         node |-> ctrl.node, inst |-> inst,
                                         init_method |-> init_method,
                                         arg_values |-> <<>>])
                                  /\ ctrl' = Eval(ctrl.node.arguments[1])
                                  /\ cells' = fs.cells
                                  /\ UNCHANGED <<envs, current_env>>
                        ELSE /\ ctrl' = IF Len(ctrl.node.arguments) # 0
                                        THEN Raise("no init method but arguments were provided")
                                        ELSE Ret(InstV(inst))
                             /\ cells' = fs.cells
                             /\ UNCHANGED <<envs, current_env, kont>>
       /\ UNCHANGED runs
    \/ /\ Resumed("NewExpr", "args")
       /\ LET arg_values == Append(Top.arg_values, ctrl.val)
          IN IF Len(arg_values) < Len(Top.node.arguments)
             THEN /\ kont' = Append(Below, [Top EXCEPT !.arg_values = arg_values])
                  /\ ctrl' = Eval(Top.node.arguments[Len(arg_values) + 1])
                  /\ UNCHANGED <<cells, envs, current_env>>
             ELSE NewExpr_invoke(cells, Below, Top.node, Top.inst, Top.init_method,
                                 arg_values)
       /\ UNCHANGED <<instances, runs>>
    \/ \* the constructor's result is dropped: `return inst`
       /\ Resumed("NewExpr", "body")
       /\ current_env' = Top.previous_env
       /\ kont' = Below
       /\ ctrl' = Ret(InstV(Top.inst))
       /\ UNCHANGED <<cells, instances, envs, runs>>
    \/ /\ Unwinding("NewExpr", "body")
       /\ current_env' = Top.previous_env
       /\ kont' = Below
       /\ UNCHANGED <<cells, instances, envs, ctrl, runs>>

visit_MemberAccess ==
    \/ /\ Visiting("MemberAccess")
       /\ kont' = Append(kont, [k |-> "MemberAccess", pc |-> "obj", node |-> ctrl.node])
       /\ ctrl' = Eval(ctrl.node.obj)
       /\ UNCHANGED <<cells, instances, envs, current_env, runs>>
    \/ /\ Resumed("MemberAccess", "obj")
       /\ LET obj_val == _unwrap(cells, ctrl.val)
          IN ctrl' = IF obj_val.t # "Instance"
                     THEN Raise("Member access on non-object value")
                     ELSE IF Top.node.member_name \notin DOMAIN instances[obj_val.o].fields
                     THEN Raise("Unknown field")
                     ELSE Ret(CellV(instances[obj_val.o].fields[Top.node.member_name]))
       /\ kont' = Below
       /\ UNCHANGED <<cells, instances, envs, current_env, runs>>

\* visit_MethodCall from the arity check on
MethodCall_invoke(base, node, obj_val, method_def, arg_values) ==
    IF Len(arg_values) # Len(method_def.params)
    THEN /\ kont' = base
         /\ ctrl' = Raise("expects arguments")
         /\ UNCHANGED <<cells, envs, current_env>>
    ELSE InvokeBody(cells, base,
                    [k |-> "MethodCall", pc |-> "body", node |-> node,
                     env |-> Len(envs) + 1, previous_env |-> current_env],
                    <<"self">> \o method_def.params, <<obj_val>> \o arg_values,
                    method_def.body)

visit_MethodCall ==
    \/ /\ Visiting("MethodCall")
       /\ kont' = Append(kont, [k |-> "MethodCall", pc |-> "obj", node |-> ctrl.node])
       /\ ctrl' = Eval(ctrl.node.obj)
       /\ UNCHANGED <<cells, instances, envs, current_env, runs>>
    \/ /\ Resumed("MethodCall", "obj")
       /\ LET obj_val == _unwrap(cells, ctrl.val)
          IN IF obj_val.t # "Instance"
             THEN /\ kont' = Below
                  /\ ctrl' = Raise("Method call on non-object value")
                  /\ UNCHANGED <<cells, envs, current_env>>
             ELSE LET method_def == _find_method(instances[obj_val.o].class_def,
                                                 Top.node.method_name)
                  IN IF IsNone(method_def)
                     THEN /\ kont' = Below
                          /\ ctrl' = Raise("Undefined method")
                          /\ UNCHANGED <<cells, envs, current_env>>
                     ELSE IF Len(Top.node.arguments) = 0
                     THEN MethodCall_invoke(Below, Top.node, obj_val, method_def, <<>>)
                     ELSE /\ kont' = Append(Below,
                                [k |-> "MethodCall", pc |-> "args", node |-> Top.node,
                                 obj_val |-> obj_val, method_def |-> method_def,
                                 arg_values |-> <<>>])
                          /\ ctrl' = Eval(Top.node.arguments[1])
                          /\ UNCHANGED <<cells, envs, current_env>>
       /\ UNCHANGED <<instances, runs>>
    \/ /\ Resumed("MethodCall", "args")
       /\ LET arg_values == Append(Top.arg_values, ctrl.val)
          IN IF Len(arg_values) < Len(Top.node.arguments)
             THEN /\ kont' = Append(Below, [Top EXCEPT !.arg_values = arg_values])
                  /\ ctrl' = Eval(Top.node.arguments[Len(arg_values) + 1])
                  /\ UNCHANGED <<cells, envs, current_env>>
             ELSE MethodCall_invoke(Below, Top.node, Top.obj_val, Top.method_def,
                                    arg_values)
       /\ UNCHANGED <<instances, runs>>
    \/ \* finally: self.current_env = prev_env
       /\ Resumed("MethodCall", "body") \/ Unwinding("MethodCall", "body")
       /\ current_env' = Top.previous_env
       /\ kont' = Below
       /\ UNCHANGED <<cells, instances, envs, ctrl, runs>>

visit_Assign ==
    \/ /\ Visiting("Assign")
       /\ kont' = Append(kont, [k |-> "Assign", pc |-> "value", node |-> ctrl.node])
       /\ ctrl' = Eval(ctrl.node.value)
       /\ UNCHANGED <<cells, instances, envs, current_env, runs>>
    \/ /\ Resumed("Assign", "value")
       /\ LET value == _unwrap(cells, ctrl.val)
          IN CASE Top.node.target.k = "Identifier" ->
                    LET r == assign_identifier(cells, envs, instances, current_env,
                                               Top.node.target.name, value)
                    IN /\ cells' = r.cells
                       /\ ctrl' = Out(r.out)
                       /\ kont' = Below
               [] Top.node.target.k = "MemberAccess" ->
                    /\ kont' = Append(Below, [k |-> "Assign", pc |-> "target",
                                              node |-> Top.node, value |-> value])
                    /\ ctrl' = Eval(Top.node.target.obj)
                    /\ cells' = cells
               [] OTHER ->
                    /\ kont' = Below
                    /\ ctrl' = Raise("Invalid assignment target")
                    /\ cells' = cells
       /\ UNCHANGED <<instances, envs, current_env, runs>>
    \/ /\ Resumed("Assign", "target")
       /\ LET r == assign_member(cells, instances, _unwrap(cells, ctrl.val),
                                 Top.node.target.member_name, Top.value)
          IN /\ cells' = r.cells
             /\ ctrl' = Out(r.out)
       /\ kont' = Below
       /\ UNCHANGED <<instances, envs, current_env, runs>>

\* an exception that leaves every activation at once, those waiting in a
\* try/finally included
Propagate_past_finally ==
    /\ ctrl.m = "exc"
    /\ Len(kont) > 0
    /\ Top.pc # "visit"
    /\ kont' = Below
    /\ UNCHANGED <<cells, instances, envs, current_env, ctrl, runs>>

\* an exception leaves an activation that has no handler for it
Propagate ==
    /\ ctrl.m = "exc"
    /\ Len(kont) > 0
    /\ Top.pc \notin {"body", "visit"}
    /\ kont' = Below
    /\ UNCHANGED <<cells, instances, envs, current_env, ctrl, runs>>


\* ------------------------------------------------------------------------
\* Input programs: each is the AST Parser.parse() builds for the source
\* text quoted above it
\* ------------------------------------------------------------------------
\* <programs>
\* { let x = 1 let r = ref x in { r := 9 } x }
P_alias ==
    Block(<<LetStatement("x", NoAnnotation, Number(1)), LetExpression("r",
      NoAnnotation, RefExpr(Identifier("x")), Block(<<RefAssign(Identifier("r"),
      Number(9))>>)), Identifier("x")>>)

\* { let x = true let r = ref x r := false #x }
P_alias_stmt ==
    Block(<<LetStatement("x", NoAnnotation, BoolLiteral(TRUE)), LetStatement("r",
      NoAnnotation, RefExpr(Identifier("x"))), RefAssign(Identifier("r"),
      BoolLiteral(FALSE)), DerefExpr(Identifier("x"))>>)

\* { func set(r) = { r := 7 } let x = 1 set(ref x) x }
P_alias_param ==
    Block(<<FunctionDef("set", <<"r">>, Block(<<RefAssign(Identifier("r"),
      Number(7))>>)), LetStatement("x", NoAnnotation, Number(1)), FunctionCall("set",
      <<RefExpr(Identifier("x"))>>), Identifier("x")>>)

\* { let x = 1 x = 2 x }
P_assign_ok ==
    Block(<<LetStatement("x", NoAnnotation, Number(1)), Assign(Identifier("x"),
      Number(2)), Identifier("x")>>)

\* { let x = 1 x = true }
P_assign_mismatch ==
    Block(<<LetStatement("x", NoAnnotation, Number(1)), Assign(Identifier("x"),
      BoolLiteral(TRUE))>>)

\* { y = 1 }
P_assign_unbound ==
    Block(<<Assign(Identifier("y"), Number(1))>>)

\* { class C { let x func m(x) = { x = "s" } } let o = new C() in { o.m(1) o.x } }
P_assign_shadow ==
    Block(<<ClassDef("C", <<FieldDef("x", NoAnnotation)>>, <<FunctionDef("m", <<"x">>,
      Block(<<Assign(Identifier("x"), StringLiteral("s"))>>))>>), LetExpression("o",
      NoAnnotation, NewExpr("C", <<>>), Block(<<MethodCall(Identifier("o"), "m",
      <<Number(1)>>), MemberAccess(Identifier("o"), "x")>>))>>)

\* { class C { let x:int func m(x) = { x = "s" } } let o = new C() in o.m(1) }
P_assign_shadow_typed ==
    Block(<<ClassDef("C", <<FieldDef("x", "int")>>, <<FunctionDef("m", <<"x">>,
      Block(<<Assign(Identifier("x"), StringLiteral("s"))>>))>>), LetExpression("o",
      NoAnnotation, NewExpr("C", <<>>), MethodCall(Identifier("o"), "m",
      <<Number(1)>>))>>)

\* { class C { let x:int func m(x) = { x = 4 x } } let o = new C() in { o.m(1) o.x } }
P_assign_var_wins ==
    Block(<<ClassDef("C", <<FieldDef("x", "int")>>, <<FunctionDef("m", <<"x">>,
      Block(<<Assign(Identifier("x"), Number(4)), Identifier("x")>>))>>),
      LetExpression("o", NoAnnotation, NewExpr("C", <<>>),
      Block(<<MethodCall(Identifier("o"), "m", <<Number(1)>>),
      MemberAccess(Identifier("o"), "x")>>))>>)

\* { let self = 3 y = 1 }
P_assign_self_nonobj ==
    Block(<<LetStatement("self", NoAnnotation, Number(3)), Assign(Identifier("y"),
      Number(1))>>)

\* { let g = 5 func f() = g f() }
P_global_in_func ==
    Block(<<LetStatement("g", NoAnnotation, Number(5)), FunctionDef("f", <<>>,
      Identifier("g")), FunctionCall("f", <<>>)>>)

\* { let g = 5 class C { let v func m() = { v = g v } } let o = new C() in o.m() }
P_global_in_method ==
    Block(<<LetStatement("g", NoAnnotation, Number(5)), ClassDef("C", <<FieldDef("v",
      NoAnnotation)>>, <<FunctionDef("m", <<>>, Block(<<Assign(Identifier("v"),
      Identifier("g")), Identifier("v")>>))>>), LetExpression("o", NoAnnotation,
      NewExpr("C", <<>>), MethodCall(Identifier("o"), "m", <<>>))>>)

\* { let g = 5 class C { let v func init() = { v = g } } let o = new C() in o.v }
P_global_in_ctor ==
    Block(<<LetStatement("g", NoAnnotation, Number(5)), ClassDef("C", <<FieldDef("v",
      NoAnnotation)>>, <<FunctionDef("init", <<>>, Block(<<Assign(Identifier("v"),
      Identifier("g"))>>))>>), LetExpression("o", NoAnnotation, NewExpr("C", <<>>),
      MemberAccess(Identifier("o"), "v"))>>)

\* { class C { let v:int func m(p) = { let q = p v = q v + p } } let o = new C() in o.m(2) }
P_own_names ==
    Block(<<ClassDef("C", <<FieldDef("v", "int")>>, <<FunctionDef("m", <<"p">>,
      Block(<<LetStatement("q", NoAnnotation, Identifier("p")), Assign(Identifier("v"),
      Identifier("q")), BinaryOp(Identifier("v"), "PLUS", Identifier("p"))>>))>>),
      LetExpression("o", NoAnnotation, NewExpr("C", <<>>), MethodCall(Identifier("o"),
      "m", <<Number(2)>>))>>)

\* { func f() = y let y = 1 in f() }
P_caller_let ==
    Block(<<FunctionDef("f", <<>>, Identifier("y")), LetExpression("y", NoAnnotation,
      Number(1), FunctionCall("f", <<>>))>>)

\* { func f(p) = q func h(q) = { let w = 2 f(w) } let z = 3 in h(z) }
P_caller_depth ==
    Block(<<FunctionDef("f", <<"p">>, Identifier("q")), FunctionDef("h", <<"q">>,
      Block(<<LetStatement("w", NoAnnotation, Number(2)), FunctionCall("f",
      <<Identifier("w")>>)>>)), LetExpression("z", NoAnnotation, Number(3),
      FunctionCall("h", <<Identifier("z")>>))>>)

\* { func f() = w func h(q) = { let w = 2 f() } h(1) }
P_caller_local ==
    Block(<<FunctionDef("f", <<>>, Identifier("w")), FunctionDef("h", <<"q">>,
      Block(<<LetStatement("w", NoAnnotation, Number(2)), FunctionCall("f", <<>>)>>)),
      FunctionCall("h", <<Number(1)>>)>>)

\* { class C { let v func init() = { v = z } } let z = 1 in new C() }
P_caller_ctor ==
    Block(<<ClassDef("C", <<FieldDef("v", NoAnnotation)>>, <<FunctionDef("init", <<>>,
      Block(<<Assign(Identifier("v"), Identifier("z"))>>))>>), LetExpression("z",
      NoAnnotation, Number(1), NewExpr("C", <<>>))>>)

\* { class D { func m() = z } let o = new D() in let z = 1 in o.m() }
P_caller_method ==
    Block(<<ClassDef("D", <<>>, <<FunctionDef("m", <<>>, Identifier("z"))>>),
      LetExpression("o", NoAnnotation, NewExpr("D", <<>>), LetExpression("z",
      NoAnnotation, Number(1), MethodCall(Identifier("o"), "m", <<>>)))>>)

\* { func f(p) = p + 1 func h(q) = { let w = 2 f(w) + q } let z = 3 in h(z) }
P_callee_ok ==
    Block(<<FunctionDef("f", <<"p">>, BinaryOp(Identifier("p"), "PLUS", Number(1))),
      FunctionDef("h", <<"q">>, Block(<<LetStatement("w", NoAnnotation, Number(2)),
      BinaryOp(FunctionCall("f", <<Identifier("w")>>), "PLUS", Identifier("q"))>>)),
      LetExpression("z", NoAnnotation, Number(3), FunctionCall("h",
      <<Identifier("z")>>))>>)

\* { let a = 1 in { func f() = 7 } f() }
P_hoist_let ==
    Block(<<LetExpression("a", NoAnnotation, Number(1), Block(<<FunctionDef("f", <<>>,
      Number(7))>>)), FunctionCall("f", <<>>)>>)

\* { { { func f() = 7 } } f() }
P_hoist_block ==
    Block(<<Block(<<Block(<<FunctionDef("f", <<>>, Number(7))>>)>>), FunctionCall("f",
      <<>>)>>)

\* { func mk() = { class E { let v:int } func k() = 3 0 } mk() let e = new E() in e.v + k() }
P_hoist_func ==
    Block(<<FunctionDef("mk", <<>>, Block(<<ClassDef("E", <<FieldDef("v", "int")>>,
      <<>>), FunctionDef("k", <<>>, Number(3)), Number(0)>>)), FunctionCall("mk",
      <<>>), LetExpression("e", NoAnnotation, NewExpr("E", <<>>),
      BinaryOp(MemberAccess(Identifier("e"), "v"), "PLUS", FunctionCall("k", <<>>)))>>)

\* { class M { func def() = { func f() = 8 class N { let s:string } 1 } } let o = new M() in o.def() let n = new N() in f() }
P_hoist_method ==
    Block(<<ClassDef("M", <<>>, <<FunctionDef("def", <<>>, Block(<<FunctionDef("f",
      <<>>, Number(8)), ClassDef("N", <<FieldDef("s", "string")>>, <<>>),
      Number(1)>>))>>), LetExpression("o", NoAnnotation, NewExpr("M", <<>>),
      MethodCall(Identifier("o"), "def", <<>>)), LetExpression("n", NoAnnotation,
      NewExpr("N", <<>>), FunctionCall("f", <<>>))>>)

\* { let a = 1 in f() }
P_no_func ==
    Block(<<LetExpression("a", NoAnnotation, Number(1), FunctionCall("f", <<>>))>>)

\* new Z()
P_no_class ==
    NewExpr("Z", <<>>)

\* { func f() = 1 let a = 1 in { func f() = 2 } f() }
P_redefine ==
    Block(<<FunctionDef("f", <<>>, Number(1)), LetExpression("a", NoAnnotation,
      Number(1), Block(<<FunctionDef("f", <<>>, Number(2))>>)), FunctionCall("f",
      <<>>)>>)

\* let x = 5 in let x = 6 in x
P_let_shadow ==
    LetExpression("x", NoAnnotation, Number(5), LetExpression("x", NoAnnotation,
      Number(6), Identifier("x")))

\* { let x = 5 in let x = 6 in x x }
P_let_gone ==
    Block(<<LetExpression("x", NoAnnotation, Number(5), LetExpression("x",
      NoAnnotation, Number(6), Identifier("x"))), Identifier("x")>>)

\* { let x = 1 let y = let x = 5 in x x + y }
P_let_restore ==
    Block(<<LetStatement("x", NoAnnotation, Number(1)), LetStatement("y", NoAnnotation,
      LetExpression("x", NoAnnotation, Number(5), Identifier("x"))),
      BinaryOp(Identifier("x"), "PLUS", Identifier("y"))>>)

\* { let x = 1 let x = 2 in (x + true) }
P_let_error ==
    Block(<<LetStatement("x", NoAnnotation, Number(1)), LetExpression("x",
      NoAnnotation, Number(2), BinaryOp(Identifier("x"), "PLUS", BoolLiteral(TRUE)))>>)

\* { let y = 1 let x = 2 in { let y = 3 let x = 4 x + y } y }
P_let_body_binds ==
    Block(<<LetStatement("y", NoAnnotation, Number(1)), LetExpression("x",
      NoAnnotation, Number(2), Block(<<LetStatement("y", NoAnnotation, Number(3)),
      LetStatement("x", NoAnnotation, Number(4)), BinaryOp(Identifier("x"), "PLUS",
      Identifier("y"))>>)), Identifier("y")>>)

\* { let x = { let x = 3 5 } in x x }
P_let_init_binds ==
    Block(<<LetExpression("x", NoAnnotation, Block(<<LetStatement("x", NoAnnotation,
      Number(3)), Number(5)>>), Identifier("x")), Identifier("x")>>)

\* let x:int = true in x
P_let_typed ==
    LetExpression("x", "int", BoolLiteral(TRUE), Identifier("x"))

\* { let a = 1 let b = a + 1 b }
P_flat ==
    Block(<<LetStatement("a", NoAnnotation, Number(1)), LetStatement("b", NoAnnotation,
      BinaryOp(Identifier("a"), "PLUS", Number(1))), Identifier("b")>>)

\* { func f(p) = { let a = p let b = a + 1 b } f(4) }
P_flat_func ==
    Block(<<FunctionDef("f", <<"p">>, Block(<<LetStatement("a", NoAnnotation,
      Identifier("p")), LetStatement("b", NoAnnotation, BinaryOp(Identifier("a"),
      "PLUS", Number(1))), Identifier("b")>>)), FunctionCall("f", <<Number(4)>>)>>)

\* { let a = 1 { let b = a + 1 } b * 3 }
P_flat_nested ==
    Block(<<LetStatement("a", NoAnnotation, Number(1)), Block(<<LetStatement("b",
      NoAnnotation, BinaryOp(Identifier("a"), "PLUS", Number(1)))>>),
      BinaryOp(Identifier("b"), "MULTIPLY", Number(3))>>)

\* { }
P_empty_block ==
    Block(<<>>)

\* { let s:string = 1 s }
P_stmt_typed ==
    Block(<<LetStatement("s", "string", Number(1)), Identifier("s")>>)

\* { let x = 1 x := 2 x }
P_ra_int ==
    Block(<<LetStatement("x", NoAnnotation, Number(1)), RefAssign(Identifier("x"),
      Number(2)), Identifier("x")>>)

\* { let x = true x := 1 }
P_ra_bool_int ==
    Block(<<LetStatement("x", NoAnnotation, BoolLiteral(TRUE)),
      RefAssign(Identifier("x"), Number(1))>>)

\* { let x = 1 x := "a" }
P_ra_int_str ==
    Block(<<LetStatement("x", NoAnnotation, Number(1)), RefAssign(Identifier("x"),
      StringLiteral("a"))>>)

\* { let x = "a" x := "b" x }
P_ra_str ==
    Block(<<LetStatement("x", NoAnnotation, StringLiteral("a")),
      RefAssign(Identifier("x"), StringLiteral("b")), Identifier("x")>>)

\* { class A { } let x = new A() let y = new A() x := y x == y }
P_ra_same_class ==
    Block(<<ClassDef("A", <<>>, <<>>), LetStatement("x", NoAnnotation, NewExpr("A",
      <<>>)), LetStatement("y", NoAnnotation, NewExpr("A", <<>>)),
      RefAssign(Identifier("x"), Identifier("y")), Comparison(Identifier("x"),
      "EQUALS", Identifier("y"))>>)

\* { class A { } class B { } let x = new A() x := new B() }
P_ra_other_class ==
    Block(<<ClassDef("A", <<>>, <<>>), ClassDef("B", <<>>, <<>>), LetStatement("x",
      NoAnnotation, NewExpr("A", <<>>)), RefAssign(Identifier("x"), NewExpr("B",
      <<>>))>>)

\* { 5 := 1 }
P_ra_not_cell ==
    Block(<<RefAssign(Number(5), Number(1))>>)

\* { class A { let n:int let u } let o = new A() in { o.n := 3 o.u := 3 } }
P_ra_field ==
    Block(<<ClassDef("A", <<FieldDef("n", "int"), FieldDef("u", NoAnnotation)>>, <<>>),
      LetExpression("o", NoAnnotation, NewExpr("A", <<>>),
      Block(<<RefAssign(MemberAccess(Identifier("o"), "n"), Number(3)),
      RefAssign(MemberAccess(Identifier("o"), "u"), Number(3))>>))>>)

\* { let x = 1 let y = 2 x := #y y := 5 x }
P_ra_deref ==
    Block(<<LetStatement("x", NoAnnotation, Number(1)), LetStatement("y", NoAnnotation,
      Number(2)), RefAssign(Identifier("x"), DerefExpr(Identifier("y"))),
      RefAssign(Identifier("y"), Number(5)), Identifier("x")>>)

\* { class K { let u } let o = new K() in { o.u = 1 o.u := { o.u = "s" 2 } o.u } }
P_ra_stale ==
    Block(<<ClassDef("K", <<FieldDef("u", NoAnnotation)>>, <<>>), LetExpression("o",
      NoAnnotation, NewExpr("K", <<>>), Block(<<Assign(MemberAccess(Identifier("o"),
      "u"), Number(1)), RefAssign(MemberAccess(Identifier("o"), "u"),
      Block(<<Assign(MemberAccess(Identifier("o"), "u"), StringLiteral("s")),
      Number(2)>>)), MemberAccess(Identifier("o"), "u")>>))>>)

\* { class A { } class B { } let x = new A() x = new B() }
P_assign_other_class ==
    Block(<<ClassDef("A", <<>>, <<>>), ClassDef("B", <<>>, <<>>), LetStatement("x",
      NoAnnotation, NewExpr("A", <<>>)), Assign(Identifier("x"), NewExpr("B", <<>>))>>)

\* { class K { let n:int } let c = new K() in { c.n = "x" } }
P_fa_typed_bad ==
    Block(<<ClassDef("K", <<FieldDef("n", "int")>>, <<>>), LetExpression("c",
      NoAnnotation, NewExpr("K", <<>>), Block(<<Assign(MemberAccess(Identifier("c"),
      "n"), StringLiteral("x"))>>))>>)

\* { class K { let n:int } let c = new K() in { c.n = 4 c.n } }
P_fa_typed_ok ==
    Block(<<ClassDef("K", <<FieldDef("n", "int")>>, <<>>), LetExpression("c",
      NoAnnotation, NewExpr("K", <<>>), Block(<<Assign(MemberAccess(Identifier("c"),
      "n"), Number(4)), MemberAccess(Identifier("c"), "n")>>))>>)

\* { class K { let u } let c = new K() in { c.u = 1 c.u = "s" c.u = true c.u } }
P_fa_drift ==
    Block(<<ClassDef("K", <<FieldDef("u", NoAnnotation)>>, <<>>), LetExpression("c",
      NoAnnotation, NewExpr("K", <<>>), Block(<<Assign(MemberAccess(Identifier("c"),
      "u"), Number(1)), Assign(MemberAccess(Identifier("c"), "u"), StringLiteral("s")),
      Assign(MemberAccess(Identifier("c"), "u"), BoolLiteral(TRUE)),
      MemberAccess(Identifier("c"), "u")>>))>>)

\* { class A { } class B { } class K { let p:A } let c = new K() in { c.p = new A() c.p = new B() } }
P_fa_class_typed ==
    Block(<<ClassDef("A", <<>>, <<>>), ClassDef("B", <<>>, <<>>), ClassDef("K",
      <<FieldDef("p", "A")>>, <<>>), LetExpression("c", NoAnnotation, NewExpr("K",
      <<>>), Block(<<Assign(MemberAccess(Identifier("c"), "p"), NewExpr("A", <<>>)),
      Assign(MemberAccess(Identifier("c"), "p"), NewExpr("B", <<>>))>>))>>)

\* { class K { let n:int let u func bad() = { n = true } func drift() = { u = 1 u = "s" u } } let c = new K() in { c.drift() c.bad() } }
P_fa_self_typed ==
    Block(<<ClassDef("K", <<FieldDef("n", "int"), FieldDef("u", NoAnnotation)>>,
      <<FunctionDef("bad", <<>>, Block(<<Assign(Identifier("n"),
      BoolLiteral(TRUE))>>)), FunctionDef("drift", <<>>,
      Block(<<Assign(Identifier("u"), Number(1)), Assign(Identifier("u"),
      StringLiteral("s")), Identifier("u")>>))>>), LetExpression("c", NoAnnotation,
      NewExpr("K", <<>>), Block(<<MethodCall(Identifier("c"), "drift", <<>>),
      MethodCall(Identifier("c"), "bad", <<>>)>>))>>)

\* { class K { let n:int } let c = new K() in { c.zz = 1 } }
P_fa_unknown ==
    Block(<<ClassDef("K", <<FieldDef("n", "int")>>, <<>>), LetExpression("c",
      NoAnnotation, NewExpr("K", <<>>), Block(<<Assign(MemberAccess(Identifier("c"),
      "zz"), Number(1))>>))>>)

\* { let c = 1 c.n = 1 }
P_fa_nonobj ==
    Block(<<LetStatement("c", NoAnnotation, Number(1)),
      Assign(MemberAccess(Identifier("c"), "n"), Number(1))>>)

\* { class Counter { let n:int func init(x) = { n = x } func inc() = { n = n + 1 } } let c = new Counter(5) in { c.inc() c.n } }
P_counter ==
    Block(<<ClassDef("Counter", <<FieldDef("n", "int")>>, <<FunctionDef("init",
      <<"x">>, Block(<<Assign(Identifier("n"), Identifier("x"))>>)), FunctionDef("inc",
      <<>>, Block(<<Assign(Identifier("n"), BinaryOp(Identifier("n"), "PLUS",
      Number(1)))>>))>>), LetExpression("c", NoAnnotation, NewExpr("Counter",
      <<Number(5)>>), Block(<<MethodCall(Identifier("c"), "inc", <<>>),
      MemberAccess(Identifier("c"), "n")>>))>>)

\* { let a = 1 if a == 1 then a == 2 else 9 }
P_eq_int ==
    Block(<<LetStatement("a", NoAnnotation, Number(1)),
      IfExpr(Comparison(Identifier("a"), "EQUALS", Number(1)),
      Comparison(Identifier("a"), "EQUALS", Number(2)), Number(9))>>)

\* true == true
P_eq_bool ==
    Comparison(BoolLiteral(TRUE), "EQUALS", BoolLiteral(TRUE))

\* 1 == true
P_eq_int_bool ==
    Comparison(Number(1), "EQUALS", BoolLiteral(TRUE))

\* { let a = 1 a == "1" }
P_eq_int_str ==
    Block(<<LetStatement("a", NoAnnotation, Number(1)), Comparison(Identifier("a"),
      "EQUALS", StringLiteral("1"))>>)

\* "a" == "b"
P_eq_str ==
    Comparison(StringLiteral("a"), "EQUALS", StringLiteral("b"))

\* { class A { } let x = new A() x == x }
P_eq_inst_same ==
    Block(<<ClassDef("A", <<>>, <<>>), LetStatement("x", NoAnnotation, NewExpr("A",
      <<>>)), Comparison(Identifier("x"), "EQUALS", Identifier("x"))>>)

\* { class A { } new A() == new A() }
P_eq_inst_two ==
    Block(<<ClassDef("A", <<>>, <<>>), Comparison(NewExpr("A", <<>>), "EQUALS",
      NewExpr("A", <<>>))>>)

\* { class A { } class B { } new A() == new B() }
P_eq_inst_other ==
    Block(<<ClassDef("A", <<>>, <<>>), ClassDef("B", <<>>, <<>>),
      Comparison(NewExpr("A", <<>>), "EQUALS", NewExpr("B", <<>>))>>)

\* { class A { let u let w } let o = new A() in o.u == o.w }
P_eq_unset ==
    Block(<<ClassDef("A", <<FieldDef("u", NoAnnotation), FieldDef("w", NoAnnotation)>>,
      <<>>), LetExpression("o", NoAnnotation, NewExpr("A", <<>>),
      Comparison(MemberAccess(Identifier("o"), "u"), "EQUALS",
      MemberAccess(Identifier("o"), "w")))>>)

\* { class A { let u } let o = new A() in o.u == 0 }
P_eq_unset_int ==
    Block(<<ClassDef("A", <<FieldDef("u", NoAnnotation)>>, <<>>), LetExpression("o",
      NoAnnotation, NewExpr("A", <<>>), Comparison(MemberAccess(Identifier("o"), "u"),
      "EQUALS", Number(0)))>>)

\* { let a = 7 (a - 1) / 2 * 3 }
P_arith ==
    Block(<<LetStatement("a", NoAnnotation, Number(7)),
      BinaryOp(BinaryOp(BinaryOp(Identifier("a"), "MINUS", Number(1)), "DIVIDE",
      Number(2)), "MULTIPLY", Number(3))>>)

\* { let a = 7 a.f }
P_member_bad ==
    Block(<<LetStatement("a", NoAnnotation, Number(7)), MemberAccess(Identifier("a"),
      "f")>>)

\* { class A { } let o = new A() in o.nope() }
P_method_bad ==
    Block(<<ClassDef("A", <<>>, <<>>), LetExpression("o", NoAnnotation, NewExpr("A",
      <<>>), MethodCall(Identifier("o"), "nope", <<>>))>>)

\* { func f(p) = p f() }
P_arity ==
    Block(<<FunctionDef("f", <<"p">>, Identifier("p")), FunctionCall("f", <<>>)>>)

\* if 0 then 1 else 2
P_if_zero ==
    IfExpr(Number(0), Number(1), Number(2))

\* if true then 1 else 2
P_if_true ==
    IfExpr(BoolLiteral(TRUE), Number(1), Number(2))

\* if "x" then 1 else 2
P_if_str ==
    IfExpr(StringLiteral("x"), Number(1), Number(2))

\* { let c = 0 - 1 if c then 1 else 2 }
P_if_neg ==
    Block(<<LetStatement("c", NoAnnotation, BinaryOp(Number(0), "MINUS", Number(1))),
      IfExpr(Identifier("c"), Number(1), Number(2))>>)

\* { let t = 0 let e = 0 if true then { t = 1 } else { e = 1 } t + e * 2 }
P_if_effects_true ==
    Block(<<LetStatement("t", NoAnnotation, Number(0)), LetStatement("e", NoAnnotation,
      Number(0)), IfExpr(BoolLiteral(TRUE), Block(<<Assign(Identifier("t"),
      Number(1))>>), Block(<<Assign(Identifier("e"), Number(1))>>)),
      BinaryOp(Identifier("t"), "PLUS", BinaryOp(Identifier("e"), "MULTIPLY",
      Number(2)))>>)

\* { let t = 0 let e = 0 if false then { t = 1 } else { e = 1 } t + e * 2 }
P_if_effects_false ==
    Block(<<LetStatement("t", NoAnnotation, Number(0)), LetStatement("e", NoAnnotation,
      Number(0)), IfExpr(BoolLiteral(FALSE), Block(<<Assign(Identifier("t"),
      Number(1))>>), Block(<<Assign(Identifier("e"), Number(1))>>)),
      BinaryOp(Identifier("t"), "PLUS", BinaryOp(Identifier("e"), "MULTIPLY",
      Number(2)))>>)

\* { let t = 0 let e = 0 let c = 5 if c then { t = 1 } else { e = 1 } t + e * 2 }
P_if_effects_int ==
    Block(<<LetStatement("t", NoAnnotation, Number(0)), LetStatement("e", NoAnnotation,
      Number(0)), LetStatement("c", NoAnnotation, Number(5)), IfExpr(Identifier("c"),
      Block(<<Assign(Identifier("t"), Number(1))>>), Block(<<Assign(Identifier("e"),
      Number(1))>>)), BinaryOp(Identifier("t"), "PLUS", BinaryOp(Identifier("e"),
      "MULTIPLY", Number(2)))>>)

\* { let t = 0 let e = 0 if "" then { t = 1 } else { e = 1 } }
P_if_effects_str ==
    Block(<<LetStatement("t", NoAnnotation, Number(0)), LetStatement("e", NoAnnotation,
      Number(0)), IfExpr(StringLiteral(""), Block(<<Assign(Identifier("t"),
      Number(1))>>), Block(<<Assign(Identifier("e"), Number(1))>>))>>)

\* { class A { } if new A() then 1 else 2 }
P_if_inst ==
    Block(<<ClassDef("A", <<>>, <<>>), IfExpr(NewExpr("A", <<>>), Number(1),
      Number(2))>>)

\* { class A { let u } let o = new A() in if o.u then 1 else 2 }
P_if_unset ==
    Block(<<ClassDef("A", <<FieldDef("u", NoAnnotation)>>, <<>>), LetExpression("o",
      NoAnnotation, NewExpr("A", <<>>), IfExpr(MemberAccess(Identifier("o"), "u"),
      Number(1), Number(2)))>>)

\* { let t = 0 func f(p) = { t = 1 } f() }
P_arity_few ==
    Block(<<LetStatement("t", NoAnnotation, Number(0)), FunctionDef("f", <<"p">>,
      Block(<<Assign(Identifier("t"), Number(1))>>)), FunctionCall("f", <<>>)>>)

\* { let t = 0 func f(p) = { t = 1 } f(1, 2) }
P_arity_many ==
    Block(<<LetStatement("t", NoAnnotation, Number(0)), FunctionDef("f", <<"p">>,
      Block(<<Assign(Identifier("t"), Number(1))>>)), FunctionCall("f", <<Number(1),
      Number(2)>>)>>)

\* { class A { let v func m(p) = { v = p } } let o = new A() in o.m() }
P_m_arity_few ==
    Block(<<ClassDef("A", <<FieldDef("v", NoAnnotation)>>, <<FunctionDef("m", <<"p">>,
      Block(<<Assign(Identifier("v"), Identifier("p"))>>))>>), LetExpression("o",
      NoAnnotation, NewExpr("A", <<>>), MethodCall(Identifier("o"), "m", <<>>))>>)

\* { class A { let v func m(p) = { v = p } } let o = new A() in o.m(1, 2) }
P_m_arity_many ==
    Block(<<ClassDef("A", <<FieldDef("v", NoAnnotation)>>, <<FunctionDef("m", <<"p">>,
      Block(<<Assign(Identifier("v"), Identifier("p"))>>))>>), LetExpression("o",
      NoAnnotation, NewExpr("A", <<>>), MethodCall(Identifier("o"), "m", <<Number(1),
      Number(2)>>))>>)

\* { class A { let v func init(p) = { v = p } } new A() }
P_ctor_arity_few ==
    Block(<<ClassDef("A", <<FieldDef("v", NoAnnotation)>>, <<FunctionDef("init",
      <<"p">>, Block(<<Assign(Identifier("v"), Identifier("p"))>>))>>), NewExpr("A",
      <<>>)>>)

\* { class A { let v func init(p) = { v = p } } new A(1, 2) }
P_ctor_arity_many ==
    Block(<<ClassDef("A", <<FieldDef("v", NoAnnotation)>>, <<FunctionDef("init",
      <<"p">>, Block(<<Assign(Identifier("v"), Identifier("p"))>>))>>), NewExpr("A",
      <<Number(1), Number(2)>>)>>)

\* { class A { let v } new A(1) }
P_ctor_noinit_args ==
    Block(<<ClassDef("A", <<FieldDef("v", NoAnnotation)>>, <<>>), NewExpr("A",
      <<Number(1)>>)>>)

\* { class A { func m() = 1 } class B { } let o = new B() in o.m() }
P_m_other_class ==
    Block(<<ClassDef("A", <<>>, <<FunctionDef("m", <<>>, Number(1))>>), ClassDef("B",
      <<>>, <<>>), LetExpression("o", NoAnnotation, NewExpr("B", <<>>),
      MethodCall(Identifier("o"), "m", <<>>))>>)

\* { let f = 1 f() }
P_call_var ==
    Block(<<LetStatement("f", NoAnnotation, Number(1)), FunctionCall("f", <<>>)>>)

\* { let k = 1 class C { let k:int func m() = k } let o = new C() in { o.k = 7 o.m() } }
P_id_var_wins ==
    Block(<<LetStatement("k", NoAnnotation, Number(1)), ClassDef("C", <<FieldDef("k",
      "int")>>, <<FunctionDef("m", <<>>, Identifier("k"))>>), LetExpression("o",
      NoAnnotation, NewExpr("C", <<>>), Block(<<Assign(MemberAccess(Identifier("o"),
      "k"), Number(7)), MethodCall(Identifier("o"), "m", <<>>)>>))>>)

\* { class C { let k:int func m() = k } let o = new C() in { o.k = 7 o.m() } }
P_id_field ==
    Block(<<ClassDef("C", <<FieldDef("k", "int")>>, <<FunctionDef("m", <<>>,
      Identifier("k"))>>), LetExpression("o", NoAnnotation, NewExpr("C", <<>>),
      Block(<<Assign(MemberAccess(Identifier("o"), "k"), Number(7)),
      MethodCall(Identifier("o"), "m", <<>>)>>))>>)

\* { class C { let k:int func m(k) = k } let o = new C() in { o.k = 7 o.m(2) } }
P_id_param_wins ==
    Block(<<ClassDef("C", <<FieldDef("k", "int")>>, <<FunctionDef("m", <<"k">>,
      Identifier("k"))>>), LetExpression("o", NoAnnotation, NewExpr("C", <<>>),
      Block(<<Assign(MemberAccess(Identifier("o"), "k"), Number(7)),
      MethodCall(Identifier("o"), "m", <<Number(2)>>)>>))>>)

\* { func f(self) = k f(3) }
P_id_self_nonobj ==
    Block(<<FunctionDef("f", <<"self">>, Identifier("k")), FunctionCall("f",
      <<Number(3)>>)>>)

\* { class R { let a:int let b:bool let s:string let u let w:R func init(p) = { a = p 99 } } let r = new R(4) in if r.b then 0 else r.a }
P_ctor_defaults ==
    Block(<<ClassDef("R", <<FieldDef("a", "int"), FieldDef("b", "bool"), FieldDef("s",
      "string"), FieldDef("u", NoAnnotation), FieldDef("w", "R")>>,
      <<FunctionDef("init", <<"p">>, Block(<<Assign(Identifier("a"), Identifier("p")),
      Number(99)>>))>>), LetExpression("r", NoAnnotation, NewExpr("R", <<Number(4)>>),
      IfExpr(MemberAccess(Identifier("r"), "b"), Number(0),
      MemberAccess(Identifier("r"), "a")))>>)

\* { class Q { let a:int let s:string } let q = new Q() in q.a }
P_ctor_noinit ==
    Block(<<ClassDef("Q", <<FieldDef("a", "int"), FieldDef("s", "string")>>, <<>>),
      LetExpression("q", NoAnnotation, NewExpr("Q", <<>>),
      MemberAccess(Identifier("q"), "a"))>>)

\* { class K { let n:int } let c = new K() in { class K { let n:int let z } c.z = 1 } }
P_redeclare ==
    Block(<<ClassDef("K", <<FieldDef("n", "int")>>, <<>>), LetExpression("c",
      NoAnnotation, NewExpr("K", <<>>), Block(<<ClassDef("K", <<FieldDef("n", "int"),
      FieldDef("z", NoAnnotation)>>, <<>>), Assign(MemberAccess(Identifier("c"), "z"),
      Number(1))>>))>>)

\* { class K { let n:int func m() = { zz = 1 } } let c = new K() in c.m() }
P_self_unknown ==
    Block(<<ClassDef("K", <<FieldDef("n", "int")>>, <<FunctionDef("m", <<>>,
      Block(<<Assign(Identifier("zz"), Number(1))>>))>>), LetExpression("c",
      NoAnnotation, NewExpr("K", <<>>), MethodCall(Identifier("c"), "m", <<>>))>>)

\* { class D { let a:int let a:string } let d = new D() in d.a }
P_field_twice ==
    Block(<<ClassDef("D", <<FieldDef("a", "int"), FieldDef("a", "string")>>, <<>>),
      LetExpression("d", NoAnnotation, NewExpr("D", <<>>),
      MemberAccess(Identifier("d"), "a"))>>)

\* { let x = 1 let y = x y := 5 x }
P_share_let ==
    Block(<<LetStatement("x", NoAnnotation, Number(1)), LetStatement("y", NoAnnotation,
      Identifier("x")), RefAssign(Identifier("y"), Number(5)), Identifier("x")>>)

\* { let x = 1 let y = x in { y = 5 } x }
P_share_letexpr ==
    Block(<<LetStatement("x", NoAnnotation, Number(1)), LetExpression("y",
      NoAnnotation, Identifier("x"), Block(<<Assign(Identifier("y"), Number(5))>>)),
      Identifier("x")>>)

\* { func set(p) = { p := 7 } let x = 1 set(x) x }
P_share_param ==
    Block(<<FunctionDef("set", <<"p">>, Block(<<RefAssign(Identifier("p"),
      Number(7))>>)), LetStatement("x", NoAnnotation, Number(1)), FunctionCall("set",
      <<Identifier("x")>>), Identifier("x")>>)

\* { class B { let v:int } let o = new B() in let y = o.v in { y := 3 o.v } }
P_share_field ==
    Block(<<ClassDef("B", <<FieldDef("v", "int")>>, <<>>), LetExpression("o",
      NoAnnotation, NewExpr("B", <<>>), LetExpression("y", NoAnnotation,
      MemberAccess(Identifier("o"), "v"), Block(<<RefAssign(Identifier("y"),
      Number(3)), MemberAccess(Identifier("o"), "v")>>)))>>)

\* { class B { let v:int func init(p) = { p := 2 } func m(q) = { q = q + 1 } } let x = 1 let o = new B(x) o.m(x) x }
P_share_members ==
    Block(<<ClassDef("B", <<FieldDef("v", "int")>>, <<FunctionDef("init", <<"p">>,
      Block(<<RefAssign(Identifier("p"), Number(2))>>)), FunctionDef("m", <<"q">>,
      Block(<<Assign(Identifier("q"), BinaryOp(Identifier("q"), "PLUS",
      Number(1)))>>))>>), LetStatement("x", NoAnnotation, Number(1)), LetStatement("o",
      NoAnnotation, NewExpr("B", <<Identifier("x")>>)), MethodCall(Identifier("o"),
      "m", <<Identifier("x")>>), Identifier("x")>>)

\* { let x = 1 let y = #x y := 5 x }
P_copy_deref ==
    Block(<<LetStatement("x", NoAnnotation, Number(1)), LetStatement("y", NoAnnotation,
      DerefExpr(Identifier("x"))), RefAssign(Identifier("y"), Number(5)),
      Identifier("x")>>)

\* { func g(p) = { p := 7 } let x = 1 let y = x + 0 y := 5 g(x * 1) x }
P_copy_computed ==
    Block(<<FunctionDef("g", <<"p">>, Block(<<RefAssign(Identifier("p"),
      Number(7))>>)), LetStatement("x", NoAnnotation, Number(1)), LetStatement("y",
      NoAnnotation, BinaryOp(Identifier("x"), "PLUS", Number(0))),
      RefAssign(Identifier("y"), Number(5)), FunctionCall("g",
      <<BinaryOp(Identifier("x"), "MULTIPLY", Number(1))>>), Identifier("x")>>)

\* { let x = 1 let y = 2 let r = y x := y x = r y := 3 x }
P_unwrap ==
    Block(<<LetStatement("x", NoAnnotation, Number(1)), LetStatement("y", NoAnnotation,
      Number(2)), LetStatement("r", NoAnnotation, Identifier("y")),
      RefAssign(Identifier("x"), Identifier("y")), Assign(Identifier("x"),
      Identifier("r")), RefAssign(Identifier("y"), Number(3)), Identifier("x")>>)

\* the top-level statements handed to interpret()
Programs ==
    <<P_alias, P_alias_stmt, P_alias_param, P_assign_ok, P_assign_mismatch,
      P_assign_unbound, P_assign_shadow, P_assign_shadow_typed, P_assign_var_wins,
      P_assign_self_nonobj, P_global_in_func, P_global_in_method, P_global_in_ctor,
      P_own_names, P_caller_let, P_caller_depth, P_caller_local, P_caller_ctor,
      P_caller_method, P_callee_ok, P_hoist_let, P_hoist_block, P_hoist_func,
      P_hoist_method, P_no_func, P_no_class, P_redefine, P_let_shadow, P_let_gone,
      P_let_restore, P_let_error, P_let_body_binds, P_let_init_binds, P_let_typed,
      P_flat, P_flat_func, P_flat_nested, P_empty_block, P_stmt_typed, P_ra_int,
      P_ra_bool_int, P_ra_int_str, P_ra_str, P_ra_same_class, P_ra_other_class,
      P_ra_not_cell, P_ra_field, P_ra_deref, P_ra_stale, P_assign_other_class,
      P_fa_typed_bad, P_fa_typed_ok, P_fa_drift, P_fa_class_typed, P_fa_self_typed,
      P_fa_unknown, P_fa_nonobj, P_counter, P_eq_int, P_eq_bool, P_eq_int_bool,
      P_eq_int_str, P_eq_str, P_eq_inst_same, P_eq_inst_two, P_eq_inst_other,
      P_eq_unset, P_eq_unset_int, P_arith, P_member_bad, P_method_bad, P_arity,
      P_if_zero, P_if_true, P_if_str, P_if_neg, P_if_effects_true, P_if_effects_false,
      P_if_effects_int, P_if_effects_str, P_if_inst, P_if_unset, P_arity_few,
      P_arity_many, P_m_arity_few, P_m_arity_many, P_ctor_arity_few, P_ctor_arity_many,
      P_ctor_noinit_args, P_m_other_class, P_call_var, P_id_var_wins, P_id_field,
      P_id_param_wins, P_id_self_nonobj, P_ctor_defaults, P_ctor_noinit, P_redeclare,
      P_self_unknown, P_field_twice, P_share_let, P_share_letexpr, P_share_param,
      P_share_field, P_share_members, P_copy_deref, P_copy_computed, P_unwrap>>
\* </programs>

\* the arithmetic operators (TokenType.PLUS, MINUS, MULTIPLY, DIVIDE)
Operators == {"PLUS", "MINUS", "MULTIPLY", "DIVIDE"}

\* the operand values of the arithmetic statements
OperandValues ==
    {IntV(i) : i \in (0 - MaxInt)..MaxInt} \cup {BoolV(TRUE), BoolV(FALSE)}

\* the expression that evaluates to operand value v: a literal, and `0 - n`
\* for a negative int (the lexer has no negative literal)
Operand(v) ==
    IF v.t = "bool" THEN BoolLiteral(v.b)
    ELSE IF v.i < 0 THEN BinaryOp(Number(0), "MINUS", Number(0 - v.i))
    ELSE Number(v.i)

\* the shapes of an arithmetic statement: both operands written in place,
\* or one of them (a boolean) read from a let-bound variable
Shapes == {"literals", "left_cell", "right_cell"}

\* `l op r`, `let a = l in a op r`, `let a = r in l op a`
ArithProgram(shape, l, operator, r) ==
    CASE shape = "literals" -> BinaryOp(Operand(l), operator, Operand(r))
      [] shape = "left_cell" ->
            LetExpression("a", NoAnnotation, Operand(l),
                          BinaryOp(Identifier("a"), operator, Operand(r)))
      [] shape = "right_cell" ->
            LetExpression("a", NoAnnotation, Operand(r),
                          BinaryOp(Operand(l), operator, Identifier("a")))

\* ------------------------------------------------------------------------
\* Interpreter.interpret
\* ------------------------------------------------------------------------
Idle == ctrl.m \in {"idle", "done", "failed"}

interpret(tree) ==
    /\ Idle
    /\ runs < MaxRuns
    /\ runs' = runs + 1
    /\ kont' = <<[k |-> "interpret", pc |-> "visit", tree |-> tree]>>
    /\ ctrl' = Eval(tree)
    /\ UNCHANGED <<cells, instances, envs, current_env>>

\* `return result.value if isinstance(result, Cell) else result`
interpret_return ==
    /\ Resumed("interpret", "visit")
    /\ ctrl' = [m |-> "done", val |-> _unwrap(cells, ctrl.val), tree |-> Top.tree]
    /\ kont' = <<>>
    /\ UNCHANGED <<cells, instances, envs, current_env, runs>>

\* the exception leaves interpret(): the statement is aborted
interpret_raise ==
    /\ Unwinding("interpret", "visit")
    /\ ctrl' = [m |-> "failed", msg |-> ctrl.msg, tree |-> Top.tree]
    /\ kont' = <<>>
    /\ UNCHANGED <<cells, instances, envs, current_env, runs>>

Next ==
    \/ \E p \in DOMAIN Programs : interpret(Programs[p])
    \/ \E shape \in Shapes, l \in OperandValues, r \in OperandValues,
          operator \in Operators :
            /\ shape = "left_cell" => l.t = "bool"
            /\ shape = "right_cell" => r.t = "bool"
            /\ interpret(ArithProgram(shape, l, operator, r))
    \/ interpret_return
    \/ interpret_raise
    \/ visit_Number
    \/ visit_BoolLiteral
    \/ visit_StringLiteral
    \/ visit_Identifier
    \/ visit_BinaryOp
    \/ visit_Comparison
    \/ visit_IfExpr
    \/ visit_LetStatement
    \/ visit_LetExpression
    \/ visit_FunctionDef
    \/ visit_FunctionCall
    \/ visit_Block
    \/ visit_RefExpr
    \/ visit_DerefExpr
    \/ visit_RefAssign
    \/ visit_ClassDef
    \/ visit_NewExpr
    \/ visit_MemberAccess
    \/ visit_MethodCall
    \/ visit_Assign
    \/ Propagate

Spec == Init /\ [][Next]_vars

\* ------------------------------------------------------------------------
\* Parser (src/src/parser.py): a recursive-descent parser over the token
\* list.  Every method is an operator of the token list and the position
\* `pos` it starts at; it yields the node built and the position reached,
\* or the exception raised by Parser.error.
\* ------------------------------------------------------------------------
\* Token(type, value): a token whose value is text (identifier, string,
\* keyword, punctuation); the position in the text is not modelled
Token(type, value) == [type |-> type, value |-> value]

\* Token(TokenType.NUMBER, int(result), start_pos)
NumberToken(value) == [type |-> "NUMBER", number |-> value]

\* what a parser method hands back: its node (or list) and self.pos
Parsed(node, pos) == [node |-> node, pos |-> pos]

\* Parser.current_token: advance() moves pos and keeps the last token once
\* pos is past the end of the list
current_token(tokens, pos) ==
    tokens[(IF pos < Len(tokens) THEN pos ELSE Len(tokens) - 1) + 1]

\* self.current_token.type
TypeAt(tokens, pos) == current_token(tokens, pos).type

RECURSIVE eat_each(_, _, _, _)
\* Parser.eat for each of the token types in turn, from types[i] on
eat_each(tokens, pos, types, i) ==
    IF i > Len(types) THEN [pos |-> pos]
    ELSE IF TypeAt(tokens, pos) = types[i]
    THEN eat_each(tokens, pos + 1, types, i + 1)
    ELSE Exc("Expected token")

\* Parser.eat(token_type)
eat(tokens, pos, token_type) == eat_each(tokens, pos, <<token_type>>, 1)

\* the parser's methods call one another through `call`, defined after them
RECURSIVE call(_, _, _, _)
RECURSIVE parameters_more(_, _, _)

\* Parser.arguments, one pass of the loop, COMMA being the current token:
\* `self.eat(COMMA); args.append(self.expr())`
arguments_pass(tokens, pos, args) ==
    LET e == call("expr", tokens, pos + 1, <<>>)
    IN IF IsExc(e) THEN e ELSE Parsed(Append(args, e.node), e.pos)

\* Parser.arguments, the loop over `, expr`
arguments_more(tokens, pos, args) ==
    IF TypeAt(tokens, pos) # "COMMA" THEN Parsed(args, pos)
    ELSE LET r == arguments_pass(tokens, pos, args)
         IN IF IsExc(r) THEN r
            ELSE call("arguments_more", tokens, r.pos, r.node)

\* Parser.arguments
arguments(tokens, pos) ==
    IF TypeAt(tokens, pos) = "RPAREN" THEN Parsed(<<>>, pos)
    ELSE LET e == call("expr", tokens, pos, <<>>)
         IN IF IsExc(e) THEN e
            ELSE call("arguments_more", tokens, e.pos, <<e.node>>)

\* a pass over `, name` that takes the name and stays at the comma
parameters_pass_in_place(tokens, pos, params) ==
    Parsed(Append(params, current_token(tokens, pos + 1).value), pos)

\* Parser.parameters, one pass of the loop, COMMA being the current token:
\* `self.eat(COMMA); params.append(self.current_token.value); self.eat(IDENTIFIER)`
parameters_pass(tokens, pos, params) ==
    LET p == eat(tokens, pos + 1, "IDENTIFIER")
    IN IF IsExc(p) THEN p
       ELSE Parsed(Append(params, current_token(tokens, pos + 1).value), p.pos)

\* Parser.parameters, the loop over `, name`
parameters_more(tokens, pos, params) ==
    IF TypeAt(tokens, pos) # "COMMA" THEN Parsed(params, pos)
    ELSE LET r == parameters_pass(tokens, pos, params)
         IN IF IsExc(r) THEN r
            ELSE parameters_more(tokens, r.pos, r.node)

\* Parser.parameters
parameters(tokens, pos) ==
    IF TypeAt(tokens, pos) = "RPAREN" THEN Parsed(<<>>, pos)
    ELSE LET p == eat(tokens, pos, "IDENTIFIER")
         IN IF IsExc(p) THEN p
            ELSE parameters_more(tokens, p.pos, <<current_token(tokens, pos).value>>)

\* `( arguments )` after a name: LPAREN is the current token
call_arguments(tokens, pos) ==
    LET a == call("arguments", tokens, pos + 1, <<>>)
    IN IF IsExc(a) THEN a
       ELSE LET p == eat(tokens, a.pos, "RPAREN")
            IN IF IsExc(p) THEN p ELSE Parsed(a.node, p.pos)

\* Parser.primary
primary(tokens, pos) ==
    LET token == current_token(tokens, pos)
    IN CASE token.type \in {"REF", "DEREF"} ->
              LET p == eat(tokens, pos + 1, "IDENTIFIER")
                  name == current_token(tokens, pos + 1).value
              IN IF IsExc(p) THEN p
                 ELSE IF token.type = "REF"
                 THEN Parsed(RefExpr(Identifier(name)), p.pos)
                 ELSE Parsed(DerefExpr(Identifier(name)), p.pos)
         [] token.type = "NEW" ->
              LET p == eat_each(tokens, pos + 1, <<"IDENTIFIER", "LPAREN">>, 1)
                  class_name == current_token(tokens, pos + 1).value
              IN IF IsExc(p) THEN p
                 ELSE LET a == call("call_arguments", tokens, p.pos - 1, <<>>)
                      IN IF IsExc(a) THEN a
                         ELSE Parsed(NewExpr(class_name, a.node), a.pos)
         [] token.type = "NUMBER" -> Parsed(Number(token.number), pos + 1)
         [] token.type = "BOOL" -> Parsed(BoolLiteral(token.value = "true"), pos + 1)
         [] token.type = "STRING" -> Parsed(StringLiteral(token.value), pos + 1)
         [] token.type = "IDENTIFIER" ->
              IF TypeAt(tokens, pos + 1) = "LPAREN"
              THEN LET a == call("call_arguments", tokens, pos + 1, <<>>)
                   IN IF IsExc(a) THEN a
                      ELSE Parsed(FunctionCall(token.value, a.node), a.pos)
              ELSE Parsed(Identifier(token.value), pos + 1)
         [] token.type = "LPAREN" ->
              LET e == call("expr", tokens, pos + 1, <<>>)
              IN IF IsExc(e) THEN e
                 ELSE LET p == eat(tokens, e.pos, "RPAREN")
                      IN IF IsExc(p) THEN p ELSE Parsed(e.node, p.pos)
         [] OTHER -> Exc("Expected primary expression")

\* Parser.factor, one pass of the loop, DOT being the current token
factor_pass(tokens, pos, node) ==
    LET p == eat(tokens, pos + 1, "IDENTIFIER")
        member_name == current_token(tokens, pos + 1).value
    IN IF IsExc(p) THEN p
       ELSE IF TypeAt(tokens, p.pos) = "LPAREN"
       THEN LET a == call("call_arguments", tokens, p.pos, <<>>)
            IN IF IsExc(a) THEN a
               ELSE Parsed(MethodCall(node, member_name, a.node), a.pos)
       ELSE Parsed(MemberAccess(node, member_name), p.pos)

\* Parser.factor, the loop over `.name` and `.name(arguments)`
factor_more(tokens, pos, node) ==
    IF TypeAt(tokens, pos) # "DOT" THEN Parsed(node, pos)
    ELSE LET r == factor_pass(tokens, pos, node)
         IN IF IsExc(r) THEN r
            ELSE call("factor_more", tokens, r.pos, r.node)

\* Parser.factor
factor(tokens, pos) ==
    LET n == call("primary", tokens, pos, <<>>)
    IN IF IsExc(n) THEN n ELSE call("factor_more", tokens, n.pos, n.node)

\* Parser.term, one pass of the loop, `*` or `/` being the current token
term_pass(tokens, pos, node) ==
    LET f == call("factor", tokens, pos + 1, <<>>)
    IN IF IsExc(f) THEN f
       ELSE Parsed(BinaryOp(node, TypeAt(tokens, pos), f.node), f.pos)

\* Parser.term, the loop over `* factor` and `/ factor`
term_more(tokens, pos, node) ==
    IF TypeAt(tokens, pos) \notin {"MULTIPLY", "DIVIDE"} THEN Parsed(node, pos)
    ELSE LET r == term_pass(tokens, pos, node)
         IN IF IsExc(r) THEN r
            ELSE call("term_more", tokens, r.pos, r.node)

\* Parser.term
term(tokens, pos) ==
    LET n == call("factor", tokens, pos, <<>>)
    IN IF IsExc(n) THEN n ELSE call("term_more", tokens, n.pos, n.node)

\* Parser.arith_expr, one pass of the loop, `+` or `-` being the current token
arith_expr_pass(tokens, pos, node) ==
    LET t == call("term", tokens, pos + 1, <<>>)
    IN IF IsExc(t) THEN t
       ELSE Parsed(BinaryOp(node, TypeAt(tokens, pos), t.node), t.pos)

\* Parser.arith_expr, the loop over `+ term` and `- term`
arith_expr_more(tokens, pos, node) ==
    IF TypeAt(tokens, pos) \notin {"PLUS", "MINUS"} THEN Parsed(node, pos)
    ELSE LET r == arith_expr_pass(tokens, pos, node)
         IN IF IsExc(r) THEN r
            ELSE call("arith_expr_more", tokens, r.pos, r.node)

\* Parser.arith_expr
arith_expr(tokens, pos) ==
    LET n == call("term", tokens, pos, <<>>)
    IN IF IsExc(n) THEN n ELSE call("arith_expr_more", tokens, n.pos, n.node)

\* Parser.comparison: at most one `==`
comparison(tokens, pos) ==
    LET n == call("arith_expr", tokens, pos, <<>>)
    IN IF IsExc(n) THEN n
       ELSE IF TypeAt(tokens, n.pos) # "EQUALS" THEN n
       ELSE LET r == call("arith_expr", tokens, n.pos + 1, <<>>)
            IN IF IsExc(r) THEN r
               ELSE Parsed(Comparison(n.node, "EQUALS", r.node), r.pos)

\* `let name` or `let name : type`, LET being the current token: the name,
\* the annotation (None when absent) and the position after them
let_head(tokens, pos) ==
    LET p == eat(tokens, pos + 1, "IDENTIFIER")
        name == current_token(tokens, pos + 1).value
    IN IF IsExc(p) THEN p
       ELSE IF TypeAt(tokens, p.pos) # "COLON"
       THEN [name |-> name, type_annotation |-> NoAnnotation, pos |-> p.pos]
       ELSE LET q == eat(tokens, p.pos + 1, "IDENTIFIER")
            IN IF IsExc(q) THEN q
               ELSE [name |-> name,
                     type_annotation |-> current_token(tokens, p.pos + 1).value,
                     pos |-> q.pos]

\* one pass of the loop over the statements of a block:
\* `statements.append(self.statement())`
statements_pass(tokens, pos, statements) ==
    LET s == call("statement", tokens, pos, <<>>)
    IN IF IsExc(s) THEN s ELSE Parsed(Append(statements, s.node), s.pos)

\* the loop `while self.current_token.type != RBRACE: statement()`
statements_to_rbrace(tokens, pos, statements) ==
    IF TypeAt(tokens, pos) = "RBRACE" THEN Parsed(statements, pos)
    ELSE LET r == statements_pass(tokens, pos, statements)
         IN IF IsExc(r) THEN r
            ELSE call("statements_to_rbrace", tokens, r.pos, r.node)

\* Parser.block_expression
block_expression(tokens, pos) ==
    LET p == eat(tokens, pos, "LBRACE")
    IN IF IsExc(p) THEN p
       ELSE LET ss == call("statements_to_rbrace", tokens, p.pos, <<>>)
            IN IF IsExc(ss) THEN ss ELSE Parsed(Block(ss.node), ss.pos + 1)

\* Parser.expr
expr(tokens, pos) ==
    CASE TypeAt(tokens, pos) = "IF" ->
            LET c == call("expr", tokens, pos + 1, <<>>)
            IN IF IsExc(c) THEN c
               ELSE LET p == eat(tokens, c.pos, "THEN")
                    IN IF IsExc(p) THEN p
                       ELSE LET t == call("expr", tokens, p.pos, <<>>)
                            IN IF IsExc(t) THEN t
                               ELSE LET q == eat(tokens, t.pos, "ELSE")
                                    IN IF IsExc(q) THEN q
                                       ELSE LET f == call("expr", tokens, q.pos, <<>>)
                                            IN IF IsExc(f) THEN f
                                               ELSE Parsed(IfExpr(c.node, t.node, f.node),
                                                           f.pos)
      [] TypeAt(tokens, pos) = "LET" ->
            LET h == let_head(tokens, pos)
            IN IF IsExc(h) THEN h
               ELSE LET p == eat(tokens, h.pos, "ASSIGN")
                    IN IF IsExc(p) THEN p
                       ELSE LET v == call("expr", tokens, p.pos, <<>>)
                            IN IF IsExc(v) THEN v
                               ELSE IF TypeAt(tokens, v.pos) # "IN"
                               THEN Exc("let-expression must contain 'in'")
                               ELSE LET b == IF TypeAt(tokens, v.pos + 1) = "LBRACE"
                                             THEN call("block_expression", tokens, v.pos + 1, <<>>)
                                             ELSE call("expr", tokens, v.pos + 1, <<>>)
                                    IN IF IsExc(b) THEN b
                                       ELSE Parsed(LetExpression(h.name, h.type_annotation,
                                                                 v.node, b.node), b.pos)
      [] TypeAt(tokens, pos) = "LBRACE" -> call("block_expression", tokens, pos, <<>>)
      [] OTHER -> call("comparison", tokens, pos, <<>>)

\* `func name(params) = body` of Parser.statement and Parser.parse_class,
\* FUNC being the current token
function_def(tokens, pos) ==
    LET p == eat_each(tokens, pos + 1, <<"IDENTIFIER", "LPAREN">>, 1)
        name == current_token(tokens, pos + 1).value
    IN IF IsExc(p) THEN p
       ELSE LET params == call("parameters", tokens, p.pos, <<>>)
            IN IF IsExc(params) THEN params
               ELSE LET q == eat_each(tokens, params.pos, <<"RPAREN", "ASSIGN">>, 1)
                    IN IF IsExc(q) THEN q
                       ELSE LET body == IF TypeAt(tokens, q.pos) = "LBRACE"
                                        THEN call("block_expression", tokens, q.pos, <<>>)
                                        ELSE call("expr", tokens, q.pos, <<>>)
                            IN IF IsExc(body) THEN body
                               ELSE Parsed(FunctionDef(name, params.node, body.node),
                                           body.pos)

\* Parser.parse_class, one pass of the loop over the members: a field, a
\* method, or the error
class_members_pass(tokens, pos, fields, methods) ==
    CASE TypeAt(tokens, pos) = "LET" ->
            LET h == let_head(tokens, pos)
            IN IF IsExc(h) THEN h
               ELSE Parsed([fields |-> Append(fields, FieldDef(h.name, h.type_annotation)),
                            methods |-> methods], h.pos)
      [] TypeAt(tokens, pos) = "FUNC" ->
            LET m == call("function_def", tokens, pos, <<>>)
            IN IF IsExc(m) THEN m
               ELSE Parsed([fields |-> fields, methods |-> Append(methods, m.node)],
                           m.pos)
      [] OTHER -> Exc("Expected field or method in class body")

\* Parser.parse_class, the loop over the members up to RBRACE
class_members(tokens, pos, fields, methods) ==
    IF TypeAt(tokens, pos) = "RBRACE"
    THEN [fields |-> fields, methods |-> methods, pos |-> pos]
    ELSE LET r == class_members_pass(tokens, pos, fields, methods)
         IN IF IsExc(r) THEN r
            ELSE call("class_members", tokens, r.pos, r.node)

\* Parser.parse_class
parse_class(tokens, pos) ==
    LET p == eat_each(tokens, pos, <<"CLASS", "IDENTIFIER", "LBRACE">>, 1)
        class_name == current_token(tokens, pos + 1).value
    IN IF IsExc(p) THEN p
       ELSE LET ms == call("class_members", tokens, p.pos, [fields |-> <<>>, methods |-> <<>>])
            IN IF IsExc(ms) THEN ms
               ELSE Parsed(ClassDef(class_name, ms.fields, ms.methods), ms.pos + 1)

\* Parser.statement
statement(tokens, pos) ==
    CASE TypeAt(tokens, pos) = "CLASS" -> call("parse_class", tokens, pos, <<>>)
      [] TypeAt(tokens, pos) = "LET" ->
            LET h == let_head(tokens, pos)
            IN IF IsExc(h) THEN h
               ELSE LET p == eat(tokens, h.pos, "ASSIGN")
                    IN IF IsExc(p) THEN p
                       ELSE LET val == call("expr", tokens, p.pos, <<>>)
                            IN IF IsExc(val) THEN val
                               ELSE IF TypeAt(tokens, val.pos) # "IN"
                               THEN Parsed(LetStatement(h.name, h.type_annotation,
                                                        val.node), val.pos)
                               ELSE LET b == call("expr", tokens, val.pos + 1, <<>>)
                                    IN IF IsExc(b) THEN b
                                       ELSE Parsed(LetExpression(h.name, h.type_annotation,
                                                                 val.node, b.node), b.pos)
      [] TypeAt(tokens, pos) = "FUNC" -> call("function_def", tokens, pos, <<>>)
      [] OTHER ->
            LET left == call("expr", tokens, pos, <<>>)
            IN IF IsExc(left) THEN left
               ELSE IF TypeAt(tokens, left.pos) = "COLON_ASSIGN"
               THEN LET value == call("expr", tokens, left.pos + 1, <<>>)
                    IN IF IsExc(value) THEN value
                       ELSE Parsed(RefAssign(left.node, value.node), value.pos)
               ELSE IF TypeAt(tokens, left.pos) = "ASSIGN"
               THEN LET value == call("expr", tokens, left.pos + 1, <<>>)
                    IN IF IsExc(value) THEN value
                       ELSE IF left.node.k \notin {"Identifier", "MemberAccess"}
                       THEN Exc("Invalid assignment target")
                       ELSE Parsed(Assign(left.node, value.node), value.pos)
               ELSE left

\* self.<method>(): the call of one parser method by another; acc is what a
\* loop of the method has collected so far
call(method, tokens, pos, acc) ==
    CASE method = "expr" -> expr(tokens, pos)
      [] method = "statement" -> statement(tokens, pos)
      [] method = "arguments" -> arguments(tokens, pos)
      [] method = "parameters" -> parameters(tokens, pos)
      [] method = "call_arguments" -> call_arguments(tokens, pos)
      [] method = "primary" -> primary(tokens, pos)
      [] method = "factor" -> factor(tokens, pos)
      [] method = "term" -> term(tokens, pos)
      [] method = "arith_expr" -> arith_expr(tokens, pos)
      [] method = "comparison" -> comparison(tokens, pos)
      [] method = "block_expression" -> block_expression(tokens, pos)
      [] method = "function_def" -> function_def(tokens, pos)
      [] method = "parse_class" -> parse_class(tokens, pos)
      [] method = "arguments_more" -> arguments_more(tokens, pos, acc)
      [] method = "factor_more" -> factor_more(tokens, pos, acc)
      [] method = "term_more" -> term_more(tokens, pos, acc)
      [] method = "arith_expr_more" -> arith_expr_more(tokens, pos, acc)
      [] method = "statements_to_rbrace" -> statements_to_rbrace(tokens, pos, acc)
      [] method = "class_members" -> class_members(tokens, pos, acc.fields, acc.methods)
      [] method = "arguments_pass" -> arguments_pass(tokens, pos, acc)
      [] method = "parameters_pass" -> parameters_pass(tokens, pos, acc)
      [] method = "factor_pass" -> factor_pass(tokens, pos, acc)
      [] method = "term_pass" -> term_pass(tokens, pos, acc)
      [] method = "arith_expr_pass" -> arith_expr_pass(tokens, pos, acc)
      [] method = "statements_pass" -> statements_pass(tokens, pos, acc)
      [] method = "class_members_pass" ->
            class_members_pass(tokens, pos, acc.fields, acc.methods)

\* a parse that hands back the first statement whatever follows it
parse_first_statement(tokens) == call("statement", tokens, 0, <<>>)

\* Parser.parse
parse(tokens) ==
    LET node == call("statement", tokens, 0, <<>>)
    IN IF IsExc(node) THEN node
       ELSE IF TypeAt(tokens, node.pos) # "EOF" THEN Exc("Expected end of input")
       ELSE node

\* a keyword or punctuation token; the parser reads its type only
T(type) == Token(type, "")

\* Token(TokenType.EOF, None, self.pos), the last token the lexer hands out
EOF == Token("EOF", "")

\* <token lists>
\* { class Counter { let n:int func init(x) = { n = x } func inc() = { n = n + 1 } } let c = new Counter(5) in { c.inc() c.n } }
T_counter ==
    <<T("LBRACE"), T("CLASS"), Token("IDENTIFIER", "Counter"), T("LBRACE"), T("LET"),
      Token("IDENTIFIER", "n"), T("COLON"), Token("IDENTIFIER", "int"), T("FUNC"),
      Token("IDENTIFIER", "init"), T("LPAREN"), Token("IDENTIFIER", "x"), T("RPAREN"),
      T("ASSIGN"), T("LBRACE"), Token("IDENTIFIER", "n"), T("ASSIGN"),
      Token("IDENTIFIER", "x"), T("RBRACE"), T("FUNC"), Token("IDENTIFIER", "inc"),
      T("LPAREN"), T("RPAREN"), T("ASSIGN"), T("LBRACE"), Token("IDENTIFIER", "n"),
      T("ASSIGN"), Token("IDENTIFIER", "n"), T("PLUS"), NumberToken(1), T("RBRACE"),
      T("RBRACE"), T("LET"), Token("IDENTIFIER", "c"), T("ASSIGN"), T("NEW"),
      Token("IDENTIFIER", "Counter"), T("LPAREN"), NumberToken(5), T("RPAREN"),
      T("IN"), T("LBRACE"), Token("IDENTIFIER", "c"), T("DOT"), Token("IDENTIFIER",
      "inc"), T("LPAREN"), T("RPAREN"), Token("IDENTIFIER", "c"), T("DOT"),
      Token("IDENTIFIER", "n"), T("RBRACE"), T("RBRACE"), EOF>>

\* { let x = 1 let r = ref x in { r := 9 } x }
T_alias ==
    <<T("LBRACE"), T("LET"), Token("IDENTIFIER", "x"), T("ASSIGN"), NumberToken(1),
      T("LET"), Token("IDENTIFIER", "r"), T("ASSIGN"), T("REF"), Token("IDENTIFIER",
      "x"), T("IN"), T("LBRACE"), Token("IDENTIFIER", "r"), T("COLON_ASSIGN"),
      NumberToken(9), T("RBRACE"), Token("IDENTIFIER", "x"), T("RBRACE"), EOF>>

\* { let x = true let r = ref x r := false #x }
T_alias_stmt ==
    <<T("LBRACE"), T("LET"), Token("IDENTIFIER", "x"), T("ASSIGN"), Token("BOOL",
      "true"), T("LET"), Token("IDENTIFIER", "r"), T("ASSIGN"), T("REF"),
      Token("IDENTIFIER", "x"), Token("IDENTIFIER", "r"), T("COLON_ASSIGN"),
      Token("BOOL", "false"), T("DEREF"), Token("IDENTIFIER", "x"), T("RBRACE"), EOF>>

\* { class C { let x func m(x) = { x = "s" } } let o = new C() in { o.m(1) o.x } }
T_assign_shadow ==
    <<T("LBRACE"), T("CLASS"), Token("IDENTIFIER", "C"), T("LBRACE"), T("LET"),
      Token("IDENTIFIER", "x"), T("FUNC"), Token("IDENTIFIER", "m"), T("LPAREN"),
      Token("IDENTIFIER", "x"), T("RPAREN"), T("ASSIGN"), T("LBRACE"),
      Token("IDENTIFIER", "x"), T("ASSIGN"), Token("STRING", "s"), T("RBRACE"),
      T("RBRACE"), T("LET"), Token("IDENTIFIER", "o"), T("ASSIGN"), T("NEW"),
      Token("IDENTIFIER", "C"), T("LPAREN"), T("RPAREN"), T("IN"), T("LBRACE"),
      Token("IDENTIFIER", "o"), T("DOT"), Token("IDENTIFIER", "m"), T("LPAREN"),
      NumberToken(1), T("RPAREN"), Token("IDENTIFIER", "o"), T("DOT"),
      Token("IDENTIFIER", "x"), T("RBRACE"), T("RBRACE"), EOF>>

\* { let t = 0 let e = 0 let c = 5 if c then { t = 1 } else { e = 1 } t + e * 2 }
T_if_effects_int ==
    <<T("LBRACE"), T("LET"), Token("IDENTIFIER", "t"), T("ASSIGN"), NumberToken(0),
      T("LET"), Token("IDENTIFIER", "e"), T("ASSIGN"), NumberToken(0), T("LET"),
      Token("IDENTIFIER", "c"), T("ASSIGN"), NumberToken(5), T("IF"),
      Token("IDENTIFIER", "c"), T("THEN"), T("LBRACE"), Token("IDENTIFIER", "t"),
      T("ASSIGN"), NumberToken(1), T("RBRACE"), T("ELSE"), T("LBRACE"),
      Token("IDENTIFIER", "e"), T("ASSIGN"), NumberToken(1), T("RBRACE"),
      Token("IDENTIFIER", "t"), T("PLUS"), Token("IDENTIFIER", "e"), T("MULTIPLY"),
      NumberToken(2), T("RBRACE"), EOF>>

\* { func f(p) = p + 1 func h(q) = { let w = 2 f(w) + q } let z = 3 in h(z) }
T_callee_ok ==
    <<T("LBRACE"), T("FUNC"), Token("IDENTIFIER", "f"), T("LPAREN"),
      Token("IDENTIFIER", "p"), T("RPAREN"), T("ASSIGN"), Token("IDENTIFIER", "p"),
      T("PLUS"), NumberToken(1), T("FUNC"), Token("IDENTIFIER", "h"), T("LPAREN"),
      Token("IDENTIFIER", "q"), T("RPAREN"), T("ASSIGN"), T("LBRACE"), T("LET"),
      Token("IDENTIFIER", "w"), T("ASSIGN"), NumberToken(2), Token("IDENTIFIER", "f"),
      T("LPAREN"), Token("IDENTIFIER", "w"), T("RPAREN"), T("PLUS"),
      Token("IDENTIFIER", "q"), T("RBRACE"), T("LET"), Token("IDENTIFIER", "z"),
      T("ASSIGN"), NumberToken(3), T("IN"), Token("IDENTIFIER", "h"), T("LPAREN"),
      Token("IDENTIFIER", "z"), T("RPAREN"), T("RBRACE"), EOF>>

\* { class A { let n:int let u } let o = new A() in { o.n := 3 o.u := 3 } }
T_ra_field ==
    <<T("LBRACE"), T("CLASS"), Token("IDENTIFIER", "A"), T("LBRACE"), T("LET"),
      Token("IDENTIFIER", "n"), T("COLON"), Token("IDENTIFIER", "int"), T("LET"),
      Token("IDENTIFIER", "u"), T("RBRACE"), T("LET"), Token("IDENTIFIER", "o"),
      T("ASSIGN"), T("NEW"), Token("IDENTIFIER", "A"), T("LPAREN"), T("RPAREN"),
      T("IN"), T("LBRACE"), Token("IDENTIFIER", "o"), T("DOT"), Token("IDENTIFIER",
      "n"), T("COLON_ASSIGN"), NumberToken(3), Token("IDENTIFIER", "o"), T("DOT"),
      Token("IDENTIFIER", "u"), T("COLON_ASSIGN"), NumberToken(3), T("RBRACE"),
      T("RBRACE"), EOF>>

\* { class K { let n:int let u func bad() = { n = true } func drift() = { u = 1 u = "s" u } } let c = new K() in { c.drift() c.bad() } }
T_fa_self_typed ==
    <<T("LBRACE"), T("CLASS"), Token("IDENTIFIER", "K"), T("LBRACE"), T("LET"),
      Token("IDENTIFIER", "n"), T("COLON"), Token("IDENTIFIER", "int"), T("LET"),
      Token("IDENTIFIER", "u"), T("FUNC"), Token("IDENTIFIER", "bad"), T("LPAREN"),
      T("RPAREN"), T("ASSIGN"), T("LBRACE"), Token("IDENTIFIER", "n"), T("ASSIGN"),
      Token("BOOL", "true"), T("RBRACE"), T("FUNC"), Token("IDENTIFIER", "drift"),
      T("LPAREN"), T("RPAREN"), T("ASSIGN"), T("LBRACE"), Token("IDENTIFIER", "u"),
      T("ASSIGN"), NumberToken(1), Token("IDENTIFIER", "u"), T("ASSIGN"),
      Token("STRING", "s"), Token("IDENTIFIER", "u"), T("RBRACE"), T("RBRACE"),
      T("LET"), Token("IDENTIFIER", "c"), T("ASSIGN"), T("NEW"), Token("IDENTIFIER",
      "K"), T("LPAREN"), T("RPAREN"), T("IN"), T("LBRACE"), Token("IDENTIFIER", "c"),
      T("DOT"), Token("IDENTIFIER", "drift"), T("LPAREN"), T("RPAREN"),
      Token("IDENTIFIER", "c"), T("DOT"), Token("IDENTIFIER", "bad"), T("LPAREN"),
      T("RPAREN"), T("RBRACE"), T("RBRACE"), EOF>>

\* { let a = 7 (a - 1) / 2 * 3 }
T_arith ==
    <<T("LBRACE"), T("LET"), Token("IDENTIFIER", "a"), T("ASSIGN"), NumberToken(7),
      T("LPAREN"), Token("IDENTIFIER", "a"), T("MINUS"), NumberToken(1), T("RPAREN"),
      T("DIVIDE"), NumberToken(2), T("MULTIPLY"), NumberToken(3), T("RBRACE"), EOF>>

\* { class A { } class B { } new A() == new B() }
T_eq_inst_other ==
    <<T("LBRACE"), T("CLASS"), Token("IDENTIFIER", "A"), T("LBRACE"), T("RBRACE"),
      T("CLASS"), Token("IDENTIFIER", "B"), T("LBRACE"), T("RBRACE"), T("NEW"),
      Token("IDENTIFIER", "A"), T("LPAREN"), T("RPAREN"), T("EQUALS"), T("NEW"),
      Token("IDENTIFIER", "B"), T("LPAREN"), T("RPAREN"), T("RBRACE"), EOF>>

\* let x:int = true in x
T_let_typed ==
    <<T("LET"), Token("IDENTIFIER", "x"), T("COLON"), Token("IDENTIFIER", "int"),
      T("ASSIGN"), Token("BOOL", "true"), T("IN"), Token("IDENTIFIER", "x"), EOF>>

\* { class M { func def() = { func f() = 8 class N { let s:string } 1 } } let o = new M() in o.def() let n = new N() in f() }
T_hoist_method ==
    <<T("LBRACE"), T("CLASS"), Token("IDENTIFIER", "M"), T("LBRACE"), T("FUNC"),
      Token("IDENTIFIER", "def"), T("LPAREN"), T("RPAREN"), T("ASSIGN"), T("LBRACE"),
      T("FUNC"), Token("IDENTIFIER", "f"), T("LPAREN"), T("RPAREN"), T("ASSIGN"),
      NumberToken(8), T("CLASS"), Token("IDENTIFIER", "N"), T("LBRACE"), T("LET"),
      Token("IDENTIFIER", "s"), T("COLON"), Token("IDENTIFIER", "string"), T("RBRACE"),
      NumberToken(1), T("RBRACE"), T("RBRACE"), T("LET"), Token("IDENTIFIER", "o"),
      T("ASSIGN"), T("NEW"), Token("IDENTIFIER", "M"), T("LPAREN"), T("RPAREN"),
      T("IN"), Token("IDENTIFIER", "o"), T("DOT"), Token("IDENTIFIER", "def"),
      T("LPAREN"), T("RPAREN"), T("LET"), Token("IDENTIFIER", "n"), T("ASSIGN"),
      T("NEW"), Token("IDENTIFIER", "N"), T("LPAREN"), T("RPAREN"), T("IN"),
      Token("IDENTIFIER", "f"), T("LPAREN"), T("RPAREN"), T("RBRACE"), EOF>>

\* { let x = 1 let y = let x = 5 in x  x + y }
T_let_restore ==
    <<T("LBRACE"), T("LET"), Token("IDENTIFIER", "x"), T("ASSIGN"), NumberToken(1),
      T("LET"), Token("IDENTIFIER", "y"), T("ASSIGN"), T("LET"), Token("IDENTIFIER",
      "x"), T("ASSIGN"), NumberToken(5), T("IN"), Token("IDENTIFIER", "x"),
      Token("IDENTIFIER", "x"), T("PLUS"), Token("IDENTIFIER", "y"), T("RBRACE"), EOF>>

\* { let s:string = 1 s }
T_stmt_typed ==
    <<T("LBRACE"), T("LET"), Token("IDENTIFIER", "s"), T("COLON"), Token("IDENTIFIER",
      "string"), T("ASSIGN"), NumberToken(1), Token("IDENTIFIER", "s"), T("RBRACE"),
      EOF>>

\* { class A { let v func m(p) = { v = p } } let o = new A() in o.m(1, 2) }
T_m_arity_many ==
    <<T("LBRACE"), T("CLASS"), Token("IDENTIFIER", "A"), T("LBRACE"), T("LET"),
      Token("IDENTIFIER", "v"), T("FUNC"), Token("IDENTIFIER", "m"), T("LPAREN"),
      Token("IDENTIFIER", "p"), T("RPAREN"), T("ASSIGN"), T("LBRACE"),
      Token("IDENTIFIER", "v"), T("ASSIGN"), Token("IDENTIFIER", "p"), T("RBRACE"),
      T("RBRACE"), T("LET"), Token("IDENTIFIER", "o"), T("ASSIGN"), T("NEW"),
      Token("IDENTIFIER", "A"), T("LPAREN"), T("RPAREN"), T("IN"), Token("IDENTIFIER",
      "o"), T("DOT"), Token("IDENTIFIER", "m"), T("LPAREN"), NumberToken(1),
      T("COMMA"), NumberToken(2), T("RPAREN"), T("RBRACE"), EOF>>

\* 1 2
T_two_statements ==
    <<NumberToken(1), NumberToken(2), EOF>>

\* { let a = 1 } { a }
T_two_blocks ==
    <<T("LBRACE"), T("LET"), Token("IDENTIFIER", "a"), T("ASSIGN"), NumberToken(1),
      T("RBRACE"), T("LBRACE"), Token("IDENTIFIER", "a"), T("RBRACE"), EOF>>

\* 1 == 2 == 3
T_second_equals ==
    <<NumberToken(1), T("EQUALS"), NumberToken(2), T("EQUALS"), NumberToken(3), EOF>>

\* let x = 1 in x x
T_let_then_statement ==
    <<T("LET"), Token("IDENTIFIER", "x"), T("ASSIGN"), NumberToken(1), T("IN"),
      Token("IDENTIFIER", "x"), Token("IDENTIFIER", "x"), EOF>>

\* f(1) 2
T_call_then_number ==
    <<Token("IDENTIFIER", "f"), T("LPAREN"), NumberToken(1), T("RPAREN"),
      NumberToken(2), EOF>>

\* { let a = 1
T_unclosed_block ==
    <<T("LBRACE"), T("LET"), Token("IDENTIFIER", "a"), T("ASSIGN"), NumberToken(1),
      EOF>>

\* class A { let n:int = 1 }
T_let_in_class ==
    <<T("CLASS"), Token("IDENTIFIER", "A"), T("LBRACE"), T("LET"), Token("IDENTIFIER",
      "n"), T("COLON"), Token("IDENTIFIER", "int"), T("ASSIGN"), NumberToken(1),
      T("RBRACE"), EOF>>

\* { 1 = 2 }
T_assign_to_number ==
    <<T("LBRACE"), NumberToken(1), T("ASSIGN"), NumberToken(2), T("RBRACE"), EOF>>

\* (let x = 1)
T_let_without_in ==
    <<T("LPAREN"), T("LET"), Token("IDENTIFIER", "x"), T("ASSIGN"), NumberToken(1),
      T("RPAREN"), EOF>>

\* (no text)
T_empty ==
    <<EOF>>

\* class A { let n:int
T_unclosed_class ==
    <<T("CLASS"), Token("IDENTIFIER", "A"), T("LBRACE"), T("LET"), Token("IDENTIFIER",
      "n"), T("COLON"), Token("IDENTIFIER", "int"), EOF>>

\* func f() = { 1
T_unclosed_function ==
    <<T("FUNC"), Token("IDENTIFIER", "f"), T("LPAREN"), T("RPAREN"), T("ASSIGN"),
      T("LBRACE"), NumberToken(1), EOF>>

\* the token lists of statements the parser accepts, with their trees
Accepted ==
    <<<<T_counter, P_counter>>, <<T_alias, P_alias>>, <<T_alias_stmt, P_alias_stmt>>,
      <<T_assign_shadow, P_assign_shadow>>, <<T_if_effects_int, P_if_effects_int>>,
      <<T_callee_ok, P_callee_ok>>, <<T_ra_field, P_ra_field>>, <<T_fa_self_typed,
      P_fa_self_typed>>, <<T_arith, P_arith>>, <<T_eq_inst_other, P_eq_inst_other>>,
      <<T_let_typed, P_let_typed>>, <<T_hoist_method, P_hoist_method>>,
      <<T_let_restore, P_let_restore>>, <<T_stmt_typed, P_stmt_typed>>,
      <<T_m_arity_many, P_m_arity_many>>>>

\* the token lists the parser must refuse
Refused ==
    {T_two_statements, T_two_blocks, T_second_equals, T_let_then_statement,
      T_call_then_number, T_unclosed_block, T_let_in_class, T_assign_to_number,
      T_let_without_in, T_empty, T_unclosed_class, T_unclosed_function}
\* </token lists>

\* the tokens the short token lists are made of
Alphabet ==
    {NumberToken(1), Token("IDENTIFIER", "x"), T("EQUALS"), T("PLUS"), T("ASSIGN"),
     T("COLON_ASSIGN"), T("LET"), T("IN"), T("LBRACE"), T("RBRACE"), T("LPAREN"),
     T("RPAREN"), T("DOT"), T("COMMA")}

\* every list of at most MaxTokens tokens of the alphabet, closed by EOF
ShortTokenLists ==
    {Append(ts, EOF) : ts \in UNION {[1..n -> Alphabet] : n \in 0..MaxTokens}}

\* the token lists handed to the parser
TokenLists ==
    ShortTokenLists \cup {Accepted[i][1] : i \in DOMAIN Accepted} \cup Refused

\* Parser.__init__ on a token list, beside a new Interpreter
ParserInit ==
    /\ cells = <<>>
    /\ instances = <<>>
    /\ envs = <<Environment(0)>>
    /\ current_env = global_env
    /\ ctrl \in {[m |-> "lexed", tokens |-> ts] : ts \in TokenLists}
    /\ kont = <<>>
    /\ runs = 0

\* Parser.parse returns its node
parse_return ==
    /\ ctrl.m = "lexed"
    /\ LET r == parse(ctrl.tokens)
       IN /\ ~IsExc(r)
          /\ ctrl' = [m |-> "parsed", tokens |-> ctrl.tokens, node |-> r.node,
                      pos |-> r.pos]
    /\ UNCHANGED <<cells, instances, envs, current_env, kont, runs>>

\* Parser.parse raises through Parser.error
parse_raise ==
    /\ ctrl.m = "lexed"
    /\ LET r == parse(ctrl.tokens)
       IN /\ IsExc(r)
          /\ ctrl' = [m |-> "syntax_error", tokens |-> ctrl.tokens, msg |-> r.exc]
    /\ UNCHANGED <<cells, instances, envs, current_env, kont, runs>>

ParserNext ==
    \/ parse_return
    \/ parse_raise

ParserSpec == ParserInit /\ [][ParserNext]_vars



\* ------------------------------------------------------------------------
\* Properties
\* ------------------------------------------------------------------------
Finished == ctrl.m \in {"done", "failed"}
\* interpret(tree) returned val
Returned(tree, val) == ctrl.m = "done" /\ ctrl.tree = tree /\ ctrl.val = val
\* interpret(tree) ended, and it returned val
Yields(tree, val) == (Finished /\ ctrl.tree = tree) => Returned(tree, val)

\* the body of a let-expression is about to be visited in its new frame
EnteringLetBody ==
    /\ Len(kont) > 0
    /\ Top.k = "LetExpression"
    /\ Top.pc = "body"
    /\ ctrl = Eval(Top.node.body)

\* C1: `ref x` is the very cell bound to x: a name bound to `ref x` by a
\* let-expression is bound to the cell x resolves to, not to a copy, so
\* writing 9 (7, false) through the alias is what the next read of x yields.
C1_RefAliasing ==
    /\ (EnteringLetBody /\ Top.node.value.k = "RefExpr") =>
           envs[Top.env].variables[Top.node.name] =
               get_cell(envs, Top.previous_env, Top.node.value.identifier.name)
    /\ Yields(P_alias, IntV(9))
    /\ Yields(P_alias_stmt, BoolV(FALSE))
    /\ Yields(P_alias_param, IntV(7))

C1_Witness == Returned(P_alias, IntV(9))


\* a raised message is a type error
IsTypeError(msg) ==
    msg \in {"Type error", "Type error in arithmetic", "Type error in comparison",
             "Type error in if condition", "Ref assignment target is not a reference"}

\* the runtime type tag of an unwrapped value: int, bool, string, class name
Tag(v) == _type_name(instances, v)

\* C2: `x = v` on an identifier is a strict two-step.  When a variable x is
\* bound on the current frame chain the assignment concerns that cell only:
\* with matching tags the cell takes the value, with differing tags an
\* exception is raised and no cell changes.  Only when no variable x is
\* bound may a cell other than a variable's be written (the field of self).
C2_AssignTwoStep ==
    [][(Resumed("Assign", "value") /\ Top.node.target.k = "Identifier") =>
          LET value == _unwrap(cells, ctrl.val)
              c == get_cell(envs, current_env, Top.node.target.name)
          IN (c # 0) =>
                IF Tag(cells[c]) = Tag(value)
                THEN cells' = [cells EXCEPT ![c] = value] /\ ctrl' = Ret(value)
                ELSE ctrl'.m = "exc" /\ cells' = cells]_vars

\* ------------------------------------------------------------------------
\* Frames of the running calls
\* ------------------------------------------------------------------------
\* the activations that wait for a function, method or constructor body
CallFrames ==
    {i \in DOMAIN kont : kont[i].pc = "body"
                         /\ kont[i].k \in {"FunctionCall", "MethodCall", "NewExpr"}}
InBody == CallFrames # {}
Innermost == CHOOSE i \in CallFrames : \A j \in CallFrames : j <= i

\* the frames get_cell walks from frame e
RECURSIVE Chain(_, _)
Chain(es, e) == IF e = 0 THEN {} ELSE {e} \cup Chain(es, es[e].parent)

\* the frames the innermost running body made itself: its call frame and
\* the let-expression frames opened since
OwnEnvs == {e \in Chain(envs, current_env) : e >= kont[Innermost].env}

\* every name bound somewhere, as a variable or as a field
BoundNames ==
    UNION {DOMAIN envs[e].variables : e \in DOMAIN envs}
    \cup UNION {DOMAIN instances[o].fields : o \in DOMAIN instances}

\* evaluating Identifier(n) in the current frame yields a cell
Resolve(n) == visit_Identifier_result(cells, envs, instances, current_env, n)
Resolves(n) == ~IsExc(Resolve(n))

\* n is a field of the instance `self` is bound to in the current frame
IsSelfField(n) ==
    LET self_cell == get_cell(envs, current_env, "self")
    IN /\ self_cell # 0
       /\ cells[self_cell].t = "Instance"
       /\ n \in DOMAIN instances[cells[self_cell].o].fields

BoundIn(es, n) == \E e \in es : n \in DOMAIN envs[e].variables

\* C3 as claimed: inside a body only the body's own bindings (its
\* parameters, self, its own lets) and the fields of self resolve; a
\* variable of the global frame does not.
C3_NoCapture_AsClaimed ==
    InBody => \A n \in BoundNames :
                 Resolves(n) => (BoundIn(OwnEnvs, n) \/ IsSelfField(n))

\* C3: inside a body a name resolves only to a binding the body made itself
\* (parameters, self, its own lets), to a variable of the global frame, or
\* to a field of self; never to a binding of a caller's non-global frame.
C3_NoCapture ==
    InBody => \A n \in BoundNames :
                 Resolves(n) =>
                    \/ \E e \in OwnEnvs \cup {global_env} :
                          /\ n \in DOMAIN envs[e].variables
                          /\ Resolve(n) = CellV(envs[e].variables[n])
                    \/ /\ IsSelfField(n)
                       /\ ~BoundIn(Chain(envs, current_env), n)

\* a function body is about to read the global variable g
C3_Witness ==
    /\ InBody
    /\ kont[Innermost].k = "FunctionCall"
    /\ ctrl = Eval(Identifier("g"))
    /\ ~BoundIn(OwnEnvs, "g")
    /\ Resolves("g")

\* the variables bound in the non-global frames of the caller of call frame i
CallerLocals(i) ==
    UNION {DOMAIN envs[e].variables :
              e \in Chain(envs, kont[i].previous_env) \ {global_env}}

\* C4: every running function, method or constructor body has a frame of
\* its own whose parent is the global frame, and a variable bound only in a
\* non-global frame of a caller (at any depth of the call stack) does not
\* resolve in the running body.
C4_FreshGlobalParentedFrame ==
    /\ \A i \in CallFrames :
          /\ envs[kont[i].env].parent = global_env
          /\ kont[i].env \notin Chain(envs, kont[i].previous_env)
    /\ InBody =>
          \A i \in CallFrames : \A n \in CallerLocals(i) :
             (/\ ~BoundIn(OwnEnvs, n)
              /\ n \notin DOMAIN envs[global_env].variables
              /\ ~IsSelfField(n)) => ~Resolves(n)

\* two calls deep, the callee is about to read a name that only a caller's
\* non-global frame binds
C4_Witness ==
    /\ Cardinality(CallFrames) >= 2
    /\ ctrl.m = "eval"
    /\ ctrl.node.k = "Identifier"
    /\ ctrl.node.name \in CallerLocals(Innermost)
    /\ ~Resolves(ctrl.node.name)

\* C5: func and class declarations are registered in the global frame only,
\* whatever frame is current, so they stay callable / instantiable after the
\* block, let-body, function or method that declared them has exited.
C5_GlobalHoisting ==
    /\ \A e \in DOMAIN envs \ {global_env} :
          envs[e].functions = EmptyDict /\ envs[e].classes = EmptyDict
    /\ (ctrl.m = "ret" /\ ctrl.val = StrV("Function 'f' defined")) =>
          "f" \in DOMAIN envs[global_env].functions
    /\ (ctrl.m = "ret" /\ ctrl.val = StrV("Class 'N' defined")) =>
          "N" \in DOMAIN envs[global_env].classes
    /\ Yields(P_hoist_let, IntV(7))
    /\ Yields(P_hoist_block, IntV(7))
    /\ Yields(P_hoist_func, IntV(3))
    /\ Yields(P_hoist_method, IntV(8))
    /\ Yields(P_redefine, IntV(2))

\* a function and a class declared inside a method body were used after the
\* method returned
C5_Witness == Returned(P_hoist_method, IntV(8))


\* ------------------------------------------------------------------------
\* Let-expressions and blocks
\* ------------------------------------------------------------------------
\* the frame that is current when activation i of stack k is resumed
EnvAt(k, cur, i) ==
    LET above == {j \in (i + 1)..Len(k) : k[j].pc = "body"}
    IN IF above = {} THEN cur
       ELSE k[CHOOSE j \in above : \A l \in above : j <= l].previous_env

\* the frame in which the let-expression of activation i was started
LetOuterEnv(k, cur, i) ==
    IF k[i].pc = "body" THEN k[i].previous_env ELSE EnvAt(k, cur, i)

\* what the let-expression's name resolves to in that outer frame
OuterResolution(cs, es, is, k, cur, i) ==
    visit_Identifier_result(cs, es, is, LetOuterEnv(k, cur, i), k[i].node.name)

\* activation i is a let-expression in progress over this step, from one of
\* the given stages on
LetInProgress(i, pcs) ==
    /\ kont[i].k = "LetExpression"
    /\ kont[i].pc \in pcs
    /\ i \in DOMAIN kont'
    /\ kont'[i].k = "LetExpression"
    /\ kont'[i].node = kont[i].node

\* a let-expression ends (returns or raises): the prior frame is current again
LetRestores ==
    (Len(kont) > 0 /\ Top.k = "LetExpression" /\ Top.pc = "body" /\ kont' = Below)
        => current_env' = Top.previous_env

\* when the statement `{ let x = 5 in let x = 6 in x  x }` ends with no
\* global x, its trailing x was unresolved
LetGone ==
    (Finished /\ ctrl.tree = P_let_gone /\ "x" \notin DOMAIN envs[global_env].variables)
        => (ctrl.m = "failed"
            /\ ctrl.msg \in {"Undefined variable", "Undefined variable or field"})

C7_BlockFlatScoping ==
    /\ [][visit_Block => (current_env' = current_env /\ envs' = envs)]_vars
    /\ [][(Resumed("LetStatement", "value") /\ ctrl'.m = "ret") =>
             /\ current_env' = current_env
             /\ Len(envs') = Len(envs)
             /\ \A e \in DOMAIN envs : e # current_env => envs'[e] = envs[e]
             /\ Top.node.name \in DOMAIN envs'[current_env].variables
             /\ cells'[envs'[current_env].variables[Top.node.name]]
                   = _unwrap(cells, ctrl.val)]_vars
    /\ [][(Resumed("Block", "stmt") /\ Top.idx = Len(Top.node.statements)) =>
             ctrl' = Ret(ctrl.val)]_vars
    /\ [](/\ Yields(P_flat, IntV(2))
          /\ Yields(P_flat_func, IntV(5))
          /\ Yields(P_flat_nested, IntV(6)))

C7_Witness == Returned(P_flat, IntV(2))

\* ------------------------------------------------------------------------
\* Type rules of the mutations
\* ------------------------------------------------------------------------
\* C8: `target := value` needs a cell as target; when the tag of the new
\* value equals the tag of the value the cell holds, the cell takes the new
\* value, which is returned; otherwise a type error is raised and the cell
\* keeps its value.
C8_RefAssign ==
    [][/\ (Resumed("RefAssign", "ref") /\ ctrl.val.t # "Cell") =>
             (ctrl'.m = "exc" /\ cells' = cells)
       /\ Resumed("RefAssign", "value") =>
             LET new_value == _unwrap(cells, ctrl.val)
             IN IF Tag(cells[Top.cell]) = Tag(new_value)
                THEN /\ cells' = [cells EXCEPT ![Top.cell] = new_value]
                     /\ ctrl' = Ret(new_value)
                ELSE /\ ctrl'.m = "exc"
                     /\ IsTypeError(ctrl'.msg)
                     /\ cells' = cells]_vars

\* the annotation the class of instance o declares for field f
DeclaredType(o, f) ==
    LET fds == instances[o].class_def.fields
    IN fds[CHOOSE i \in DOMAIN fds : fds[i].name = f].type_annotation

\* the outcome of assigning value to field f of instance o
FieldRule(o, f, value) ==
    LET c == instances[o].fields[f]
    IN IF DeclaredType(o, f) # NoAnnotation /\ DeclaredType(o, f) # Tag(value)
       THEN ctrl' = Raise("Type error") /\ cells' = cells
       ELSE ctrl' = Ret(value) /\ cells' = [cells EXCEPT ![c] = value]

\* C9: an assignment to a field (`obj.f = v`, or `f = v` with no variable f
\* bound and f a field of self) is checked against the declared annotation
\* only: a declared type that differs from v's tag raises a type error and
\* leaves the field as it was; a field declared without a type takes any
\* value, whatever it holds.
C9_FieldAssign ==
    [][/\ Resumed("Assign", "target") =>
             LET obj_val == _unwrap(cells, ctrl.val)
                 f == Top.node.target.member_name
             IN (obj_val.t = "Instance" /\ f \in DOMAIN instances[obj_val.o].fields)
                   => FieldRule(obj_val.o, f, Top.value)
       /\ (Resumed("Assign", "value") /\ Top.node.target.k = "Identifier") =>
             LET f == Top.node.target.name
             IN (get_cell(envs, current_env, f) = 0 /\ IsSelfField(f))
                   => FieldRule(cells[get_cell(envs, current_env, "self")].o, f,
                                _unwrap(cells, ctrl.val))]_vars

\* c.n = "x" on the field n:int was refused with a type error
C9_Witness ==
    /\ ctrl.m = "failed"
    /\ ctrl.tree = P_fa_typed_bad
    /\ ctrl.msg = "Type error"

\* C10: `a == b` raises a type error when the operands' tags differ (an
\* instance is tagged by its class name) and otherwise yields the int 1 for
\* equal operands and the int 0 for unequal ones.
C10_Equality ==
    [][Resumed("Comparison", "right") =>
          LET left_val == Top.left_val
              right_val == _unwrap(cells, ctrl.val)
          IN IF Tag(left_val) # Tag(right_val)
             THEN ctrl'.m = "exc" /\ IsTypeError(ctrl'.msg)
             ELSE ctrl' = Ret(IF left_val = right_val THEN IntV(1) ELSE IntV(0))]_vars


\* ------------------------------------------------------------------------
\* Arithmetic
\* ------------------------------------------------------------------------
\* the statement just finished is `l op r` with a boolean literal operand
BoolArithmeticFinished ==
    /\ Finished
    /\ ctrl.tree.k = "BinaryOp"
    /\ "BoolLiteral" \in {ctrl.tree.left.k, ctrl.tree.right.k}

\* C11: an arithmetic operation with a bool-tagged operand on either side,
\* written in place or read from a cell, raises a type error whatever the
\* operator and the other operand are; an arithmetic operation returns a
\* value only for two int-tagged operands.
C11_BoolArithmetic ==
    /\ [][Resumed("BinaryOp", "right") =>
             LET left_val == Top.left_val
                 right_val == _unwrap(cells, ctrl.val)
             IN /\ "bool" \in {Tag(left_val), Tag(right_val)} =>
                      ctrl' = Raise("Type error in arithmetic")
                /\ ctrl'.m = "ret" =>
                      (Tag(left_val) = "int" /\ Tag(right_val) = "int")]_vars
    /\ [](BoolArithmeticFinished =>
             (ctrl.m = "failed" /\ ctrl.msg = "Type error in arithmetic"))

\* `let a = true in a / 0` failed with the type error
C11_Witness ==
    /\ ctrl.m = "failed"
    /\ ctrl.msg = "Type error in arithmetic"
    /\ ctrl.tree = ArithProgram("left_cell", BoolV(TRUE), "DIVIDE", IntV(0))

\* the integer q with q <= a / b < q + 1
Floor(a, b) ==
    LET abs(x) == IF x < 0 THEN 0 - x ELSE x
    IN CHOOSE q \in (0 - abs(a) - 1)..(abs(a) + 1) :
          IF b > 0 THEN q * b <= a /\ a < (q + 1) * b
          ELSE q * b >= a /\ a > (q + 1) * b

\* C12: for ints a and b, `a / b` with b # 0 returns the floor of the
\* quotient, and `a / 0` raises the division-by-zero error, which is not the
\* type error; a division by 0 returns nothing.
C12_FloorDivision ==
    [][(/\ Resumed("BinaryOp", "right")
        /\ Top.node.operator = "DIVIDE"
        /\ Top.left_val.t = "int"
        /\ _unwrap(cells, ctrl.val).t = "int") =>
          LET a == Top.left_val.i
              b == _unwrap(cells, ctrl.val).i
          IN IF b = 0
             THEN ctrl' = Raise("Division by zero") /\ ~IsTypeError(ctrl'.msg)
             ELSE ctrl' = Ret(IntV(Floor(a, b)))]_vars

\* `(0 - 1) / 2` returned -1
C12_Witness ==
    Returned(ArithProgram("literals", IntV(0 - 1), "DIVIDE", IntV(2)), IntV(0 - 1))


\* ------------------------------------------------------------------------
\* Conditionals
\* ------------------------------------------------------------------------
\* the value of the global variable n
GlobalValue(n) == cells[envs[global_env].variables[n]]

\* C13: in `if cond then a else b` a bool condition selects by its truth, an
\* int condition is true iff it is not 0, any other condition is a type
\* error with no branch evaluated; the if-expression evaluates the selected
\* branch and nothing else, so the effects of the other branch never occur.
C13_IfExpr ==
    /\ [][Resumed("IfExpr", "condition") =>
             LET condition_val == _unwrap(cells, ctrl.val)
                 tag == Tag(condition_val)
                 truth == IF tag = "bool" THEN condition_val.b ELSE condition_val.i # 0
             IN /\ IF tag \in {"bool", "int"}
                   THEN ctrl' = Eval(IF truth THEN Top.node.true_branch
                                     ELSE Top.node.false_branch)
                   ELSE ctrl'.m = "exc" /\ IsTypeError(ctrl'.msg)
                /\ kont' = Below
                /\ UNCHANGED <<cells, instances, envs, current_env>>]_vars
    /\ [](/\ Yields(P_if_zero, IntV(2))
          /\ Yields(P_if_true, IntV(1))
          /\ Yields(P_if_neg, IntV(1))
          /\ Yields(P_if_effects_true, IntV(1))
          /\ Yields(P_if_effects_false, IntV(2))
          /\ Yields(P_if_effects_int, IntV(1))
          /\ (Finished /\ ctrl.tree \in {P_if_str, P_if_inst, P_if_unset, P_if_effects_str})
                => (ctrl.m = "failed" /\ ctrl.msg = "Type error in if condition")
          /\ (Finished /\ ctrl.tree = P_if_effects_str)
                => (GlobalValue("t") = IntV(0) /\ GlobalValue("e") = IntV(0)))

\* `if "" then { t = 1 } else { e = 1 }` failed and wrote neither t nor e
C13_Witness ==
    /\ ctrl.m = "failed"
    /\ ctrl.tree = P_if_effects_str
    /\ GlobalValue("t") = IntV(0)
    /\ GlobalValue("e") = IntV(0)


\* ------------------------------------------------------------------------
\* Calls
\* ------------------------------------------------------------------------
\* the call of this step fails: an exception is raised, no frame is made for
\* a body and no body is visited
Rejected ==
    /\ ctrl'.m = "exc"
    /\ envs' = envs
    /\ current_env' = current_env
    /\ Len(kont') <= Len(kont)

\* this step receives the last argument of a call of the given kind
LastArgument(kind) ==
    /\ Resumed(kind, "args")
    /\ Len(Top.arg_values) + 1 = Len(Top.node.arguments)

\* the class declares a method of that name
Declares(class_def, name) ==
    \E i \in DOMAIN class_def.methods : class_def.methods[i].name = name

\* the declaration of method name of the class
MethodOf(class_def, name) ==
    class_def.methods[CHOOSE i \in DOMAIN class_def.methods :
                          class_def.methods[i].name = name]

\* the statements that call what does not exist or with a wrong count
BadCalls ==
    {P_no_func, P_call_var, P_method_bad, P_m_other_class, P_arity, P_arity_few,
     P_arity_many, P_m_arity_few, P_m_arity_many, P_ctor_arity_few,
     P_ctor_arity_many, P_ctor_noinit_args}

\* C14: a call of a function that is not registered globally, of a method
\* the receiver's class does not declare, or of a function, method or
\* constructor with a number of arguments other than its number of
\* parameters raises an error; the body is not run and nothing is returned.
C14_CallErrors ==
    /\ [][/\ (/\ Visiting("FunctionCall")
              /\ ctrl.node.name \notin DOMAIN envs[global_env].functions) => Rejected
          /\ (/\ Visiting("FunctionCall")
              /\ ctrl.node.name \in DOMAIN envs[global_env].functions
              /\ Len(ctrl.node.arguments) = 0
              /\ Len(envs[global_env].functions[ctrl.node.name].params) # 0) => Rejected
          /\ (/\ LastArgument("FunctionCall")
              /\ Len(Top.node.arguments) # Len(Top.func_def.params)) => Rejected
          /\ (/\ Resumed("MethodCall", "obj")
              /\ _unwrap(cells, ctrl.val).t = "Instance") =>
                LET class_def == instances[_unwrap(cells, ctrl.val).o].class_def
                    name == Top.node.method_name
                IN /\ ~Declares(class_def, name) => Rejected
                   /\ (/\ Declares(class_def, name)
                       /\ Len(Top.node.arguments) = 0
                       /\ Len(MethodOf(class_def, name).params) # 0) => Rejected
          /\ (/\ LastArgument("MethodCall")
              /\ Len(Top.node.arguments) # Len(Top.method_def.params)) => Rejected
          /\ (/\ Visiting("NewExpr")
              /\ ctrl.node.class_name \in DOMAIN envs[global_env].classes) =>
                LET class_def == envs[global_env].classes[ctrl.node.class_name]
                    params == IF Declares(class_def, "init")
                              THEN MethodOf(class_def, "init").params ELSE <<>>
                IN (/\ Declares(class_def, "init") => Len(ctrl.node.arguments) = 0
                    /\ Len(ctrl.node.arguments) # Len(params)) => Rejected
          /\ (/\ LastArgument("NewExpr")
              /\ Len(Top.node.arguments) # Len(Top.init_method.params)) => Rejected]_vars
    /\ []((/\ Finished
           /\ ctrl.tree \in BadCalls
           /\ ctrl.tree \in {P_no_func, P_call_var}
                 => "f" \notin DOMAIN envs[global_env].functions)
             => ctrl.m = "failed")
    /\ []((Finished /\ ctrl.tree \in {P_arity_few, P_arity_many})
             => GlobalValue("t") = IntV(0))

\* `{ let t = 0 func f(p) = { t = 1 } f(1, 2) }` failed on the argument count
\* and t is still 0
C14_Witness ==
    /\ ctrl.m = "failed"
    /\ ctrl.tree = P_arity_many
    /\ ctrl.msg = "expects arguments"
    /\ GlobalValue("t") = IntV(0)


\* ------------------------------------------------------------------------
\* Parser
\* ------------------------------------------------------------------------
\* the classes of ast_nodes.py a statement can be
TopLevelKinds ==
    {"Number", "BoolLiteral", "StringLiteral", "Identifier", "BinaryOp", "Comparison",
     "IfExpr", "LetStatement", "LetExpression", "Block", "FunctionDef", "FunctionCall",
     "RefExpr", "DerefExpr", "RefAssign", "ClassDef", "NewExpr", "MemberAccess",
     "MethodCall", "Assign"}

\* C15: parse() on a token list closed by EOF either raises a syntax error
\* or returns one node with every token before EOF consumed and EOF as the
\* current token; a list with tokens left after its first statement (two
\* statements, a second `==`) is refused.
C15_ParseConsumesAll ==
    /\ ctrl.m = "parsed" =>
          /\ ctrl.pos = Len(ctrl.tokens) - 1
          /\ current_token(ctrl.tokens, ctrl.pos) = EOF
          /\ ctrl.node.k \in TopLevelKinds
    /\ (ctrl.m # "lexed" /\ ctrl.tokens \in Refused) => ctrl.m = "syntax_error"
    /\ \A i \in DOMAIN Accepted :
          (ctrl.m # "lexed" /\ ctrl.tokens = Accepted[i][1]) =>
             (ctrl.m = "parsed" /\ ctrl.node = Accepted[i][2])

\* `1 == 2 == 3` was refused at the second `==`
C15_Witness ==
    /\ ctrl.m = "syntax_error"
    /\ ctrl.tokens = T_second_equals
    /\ ctrl.msg = "Expected end of input"


\* ------------------------------------------------------------------------
\* The current frame
\* ------------------------------------------------------------------------
\* the activations of stack k that wait for a body in a frame they made
\* current: let-expressions, function calls, method calls, constructors
BodyFrames(k) == {i \in DOMAIN k : k[i].pc = "body"}

\* the frame made current by the innermost of the activations in B, the
\* global frame when there is none
FrameOf(k, B) ==
    IF B = {} THEN global_env
    ELSE k[CHOOSE i \in B : \A j \in B : j <= i].env

\* C16: the current frame follows the stack of evaluations: each waiting
\* let-expression, call or constructor remembers the frame that was current
\* when it began, that frame is current again in the step in which it ends
\* (by return or by exception), and between and after top-level statements
\* the current frame is the global frame.
C16_FrameDiscipline ==
    /\ [](/\ current_env = FrameOf(kont, BodyFrames(kont))
          /\ \A i \in BodyFrames(kont) :
                kont[i].previous_env = FrameOf(kont, {j \in BodyFrames(kont) : j < i})
          /\ Idle => current_env = global_env)
    /\ [][(/\ Len(kont) > 0
           /\ Top.pc = "body"
           /\ Len(kont') < Len(kont)) =>
             (/\ ctrl.m \in {"ret", "exc"}
              /\ current_env' = Top.previous_env
              /\ ctrl'.m = ctrl.m)]_vars

\* `{ func f(p) = q func h(q) = { let w = 2 f(w) } let z = 3 in h(z) }` failed
\* inside f, three frames deep, and the global frame is current
C16_Witness ==
    /\ ctrl.m = "failed"
    /\ ctrl.tree = P_caller_depth
    /\ current_env = global_env
    /\ Len(envs) >= 4


\* ------------------------------------------------------------------------
\* Identifier resolution
\* ------------------------------------------------------------------------
\* the frames from e up to the global frame, innermost first
RECURSIVE FrameChain(_, _)
FrameChain(es, e) ==
    IF es[e].parent = 0 THEN <<e>> ELSE <<e>> \o FrameChain(es, es[e].parent)

\* the positions in the current frame chain of the frames that bind name
Binders(name) ==
    LET chain == FrameChain(envs, current_env)
    IN {i \in DOMAIN chain : name \in DOMAIN envs[chain[i]].variables}

\* the cell of the innermost binding of name on the current frame chain
BoundCell(name) ==
    LET chain == FrameChain(envs, current_env)
        i == CHOOSE b \in Binders(name) : \A c \in Binders(name) : b <= c
    IN envs[chain[i]].variables[name]

\* `self` is bound to an instance that has a field called name
SelfHasField(name) ==
    /\ Binders("self") # {}
    /\ cells[BoundCell("self")].t = "Instance"
    /\ name \in DOMAIN instances[cells[BoundCell("self")].o].fields

\* the global frame binds no variable n when the statement starts
NoGlobal(n) == n \notin DOMAIN envs[global_env].variables

\* C17: an identifier n evaluates to the cell of the innermost variable n on
\* the current frame chain when there is one, whether or not `self` has a
\* field n; without such a variable, to the cell of field n of the instance
\* `self` is bound to; otherwise an unresolved-name exception is raised and no
\* value is produced. The evaluation changes nothing.
C17_IdentifierOrder ==
    /\ [][Visiting("Identifier") =>
            LET n == ctrl.node.name
            IN /\ Binders(n) # {} => ctrl' = Ret(CellV(BoundCell(n)))
               /\ (Binders(n) = {} /\ SelfHasField(n)) =>
                     ctrl' = Ret(CellV(instances[cells[BoundCell("self")].o].fields[n]))
               /\ (Binders(n) = {} /\ ~SelfHasField(n)) =>
                     /\ ctrl'.m = "exc"
                     /\ ctrl'.msg \in {"Undefined variable", "Undefined variable or field"}
               /\ UNCHANGED <<cells, instances, envs, current_env, kont>>]_vars
    /\ [](Yields(P_id_var_wins, IntV(1)))
    /\ [](Yields(P_id_param_wins, IntV(2)))
    /\ []((Finished /\ ctrl.tree = P_id_field) =>
             \/ Returned(P_id_field, IntV(7))
             \/ ~NoGlobal("k"))
    /\ []((Finished /\ ctrl.tree = P_id_self_nonobj) =>
             \/ ctrl.m = "failed"
             \/ ~NoGlobal("k"))

\* `{ let k = 1 class C { let k:int func m() = k } let o = new C() in
\* { o.k = 7 o.m() } }` returned the variable's 1 while the field k of the
\* instance holds 7
C17_Witness ==
    /\ Returned(P_id_var_wins, IntV(1))
    /\ \E o \in DOMAIN instances :
          /\ "k" \in DOMAIN instances[o].fields
          /\ cells[instances[o].fields["k"]] = IntV(7)


\* ------------------------------------------------------------------------
\* Constructors
\* ------------------------------------------------------------------------
\* the value a field of the declared type starts with
FieldDefault(type_annotation) ==
    CASE type_annotation = "int" -> IntV(0)
      [] type_annotation = "bool" -> BoolV(FALSE)
      [] type_annotation = "string" -> StrV("")
      [] OTHER -> NoneV

\* the last element of the sequence defs that is called name
LastNamed(defs, name) ==
    defs[CHOOSE i \in DOMAIN defs :
            /\ defs[i].name = name
            /\ \A j \in DOMAIN defs : j > i => defs[j].name # name]

\* this step enters the body of the init method of a `new`
EntersInit ==
    /\ Len(kont') > 0
    /\ kont'[Len(kont')].k = "NewExpr"
    /\ kont'[Len(kont')].pc = "body"
    /\ \/ Len(kont) < Len(kont')
       \/ kont[Len(kont')].pc # "body"

\* the arguments evaluated for the constructor entered by this step
InitArguments ==
    IF Visiting("NewExpr") THEN <<>> ELSE Append(Top.arg_values, ctrl.val)

\* C18: `new C(args)` first gives the new instance one fresh cell per declared
\* field name, holding the default of the field's declared type (0, false, "",
\* unset otherwise); init, when the class has one, runs in a fresh frame whose
\* parent is the global frame, with `self` bound to the new instance and the
\* parameters bound to the arguments by position; the value of `new` is the
\* instance, whatever init returns; the Counter statement evaluates to 6.
C18_Constructor ==
    /\ [][(/\ Visiting("NewExpr")
           /\ ctrl.node.class_name \in DOMAIN envs[global_env].classes) =>
            LET class_def == envs[global_env].classes[ctrl.node.class_name]
                inst == instances'[Len(instances')]
                names == {class_def.fields[i].name : i \in DOMAIN class_def.fields}
            IN /\ Len(instances') = Len(instances) + 1
               /\ SubSeq(instances', 1, Len(instances)) = instances
               /\ inst.class_def = class_def
               /\ DOMAIN inst.fields = names
               /\ \A n \in names :
                     /\ inst.fields[n] > Len(cells)
                     /\ inst.fields[n] <= Len(cells')
                     /\ cells'[inst.fields[n]] =
                           FieldDefault(LastNamed(class_def.fields, n).type_annotation)
               /\ \A n \in names, m \in names :
                     inst.fields[n] = inst.fields[m] => n = m
               /\ SubSeq(cells', 1, Len(cells)) = cells
               /\ (\A i \in DOMAIN class_def.methods : class_def.methods[i].name # "init")
                     => /\ ctrl' \in {Ret(InstV(Len(instances'))),
                                      Raise("no init method but arguments were provided")}
                        /\ (ctrl'.m = "ret") = (ctrl.node.arguments = <<>>)]_vars
    /\ [][EntersInit =>
            LET frame == kont'[Len(kont')]
                class_def == instances'[frame.inst].class_def
                first_init == class_def.methods[CHOOSE i \in DOMAIN class_def.methods :
                                 /\ class_def.methods[i].name = "init"
                                 /\ \A j \in DOMAIN class_def.methods :
                                       class_def.methods[j].name = "init" => i <= j]
                variables == envs'[current_env'].variables
                args == InitArguments
            IN /\ current_env' = Len(envs) + 1
               /\ Len(envs') = Len(envs) + 1
               /\ envs'[current_env'].parent = global_env
               /\ frame.previous_env = current_env
               /\ ctrl' = Eval(first_init.body)
               /\ Len(args) = Len(first_init.params)
               /\ DOMAIN variables = {"self"} \cup
                     {first_init.params[i] : i \in DOMAIN first_init.params}
               /\ \A i \in DOMAIN first_init.params :
                     (\A j \in DOMAIN first_init.params :
                         j > i => first_init.params[j] # first_init.params[i])
                     => IF args[i].t = "Cell"
                        THEN variables[first_init.params[i]] = args[i].c
                        ELSE /\ variables[first_init.params[i]] > Len(cells)
                             /\ cells'[variables[first_init.params[i]]] = args[i]
               /\ (\A i \in DOMAIN first_init.params : first_init.params[i] # "self")
                     => /\ variables["self"] > Len(cells)
                        /\ cells'[variables["self"]] = InstV(frame.inst)]_vars
    /\ [][Resumed("NewExpr", "body") =>
            /\ ctrl' = Ret(InstV(Top.inst))
            /\ UNCHANGED <<cells, instances, envs>>]_vars
    /\ []((Finished /\ ctrl.tree = P_counter) =>
             \/ Returned(P_counter, IntV(6))
             \/ ~NoGlobal("n"))
    /\ []((Finished /\ ctrl.tree = P_ctor_defaults) =>
             \/ Returned(P_ctor_defaults, IntV(4))
             \/ ~NoGlobal("a"))
    /\ [](Yields(P_ctor_noinit, IntV(0)))

\* `{ class R { let a:int let b:bool let s:string let u let w:R
\* func init(p) = { a = p 99 } } let r = new R(4) in if r.b then 0 else r.a }`
\* returned 4: init ran on the instance, whose other fields hold the defaults
C18_Witness ==
    /\ Returned(P_ctor_defaults, IntV(4))
    /\ \E o \in DOMAIN instances :
          /\ DOMAIN instances[o].fields = {"a", "b", "s", "u", "w"}
          /\ cells[instances[o].fields["a"]] = IntV(4)
          /\ cells[instances[o].fields["b"]] = BoolV(FALSE)
          /\ cells[instances[o].fields["s"]] = StrV("")
          /\ cells[instances[o].fields["u"]] = NoneV
          /\ cells[instances[o].fields["w"]] = NoneV


\* ------------------------------------------------------------------------
\* The fields of an instance
\* ------------------------------------------------------------------------
\* the field names declared by a class declaration
DeclaredFields(class_def) ==
    {class_def.fields[i].name : i \in DOMAIN class_def.fields}

\* C19: in every state the field mapping of every instance has exactly the
\* names declared by the class declaration the instance was created from; no
\* step changes the mapping or the declaration of an existing instance, also
\* when the class is declared again; an assignment to an undeclared field,
\* explicit or through `self`, fails and creates nothing.
C19_FieldSet ==
    /\ [](\A o \in DOMAIN instances :
             DOMAIN instances[o].fields = DeclaredFields(instances[o].class_def))
    /\ [][\A o \in DOMAIN instances :
             /\ o \in DOMAIN instances'
             /\ instances'[o] = instances[o]]_vars
    /\ [][(/\ Resumed("Assign", "target")
           /\ _unwrap(cells, ctrl.val).t = "Instance"
           /\ Top.node.target.member_name \notin
                 DeclaredFields(instances[_unwrap(cells, ctrl.val).o].class_def)) =>
            /\ ctrl'.m = "exc"
            /\ UNCHANGED <<cells, instances, envs>>]_vars
    /\ []((Finished /\ ctrl.tree \in {P_fa_unknown, P_redeclare}) =>
             /\ ctrl.m = "failed"
             /\ DOMAIN instances[Len(instances)].fields = {"n"})
    /\ []((Finished /\ ctrl.tree = P_self_unknown) =>
             \/ /\ ctrl.m = "failed"
                /\ DOMAIN instances[Len(instances)].fields = {"n"}
             \/ ~NoGlobal("zz"))
    /\ [](Yields(P_field_twice, StrV("")))

\* `{ class K { let n:int } let c = new K() in { class K { let n:int let z }
\* c.z = 1 } }` failed: K now declares z, the instance made before has only n
C19_Witness ==
    /\ ctrl.m = "failed"
    /\ ctrl.tree = P_redeclare
    /\ DeclaredFields(envs[global_env].classes["K"]) = {"n", "z"}
    /\ instances[Len(instances)].class_def.name = "K"
    /\ DOMAIN instances[Len(instances)].fields = {"n"}


\* ------------------------------------------------------------------------
\* Bindings and cells
\* ------------------------------------------------------------------------
\* name is bound in frame e to what `value` denotes: the cell itself when
\* value is a cell, a cell made by this step and holding value otherwise
BoundTo(e, name, value) ==
    LET c == envs'[e].variables[name]
    IN IF value.t = "Cell" THEN c = value.c
       ELSE c > Len(cells) /\ c <= Len(cells') /\ cells'[c] = value

\* this step enters the body of a function (kind "FunctionCall") or of a
\* method (kind "MethodCall")
EntersBody(kind) ==
    /\ Len(kont') > 0
    /\ kont'[Len(kont')].k = kind
    /\ kont'[Len(kont')].pc = "body"
    /\ \/ Len(kont) < Len(kont')
       \/ kont[Len(kont')].pc # "body"

\* the evaluated arguments of the call whose body this step enters
CallArguments ==
    IF ctrl.m = "eval" \/ Top.pc = "obj" THEN <<>>
    ELSE Append(Top.arg_values, ctrl.val)

\* the parameter names of the function or method whose body this step enters
CalleeParams(kind) ==
    LET node == kont'[Len(kont')].node
    IN IF kind = "FunctionCall" THEN envs[global_env].functions[node.name].params
       ELSE LET obj_val == IF Top.pc = "obj" THEN _unwrap(cells, ctrl.val)
                           ELSE Top.obj_val
                methods == instances[obj_val.o].class_def.methods
            IN methods[CHOOSE i \in DOMAIN methods :
                          /\ methods[i].name = node.method_name
                          /\ \A j \in DOMAIN methods :
                                methods[j].name = node.method_name => i <= j].params

\* C20: a let-statement, a let-expression and a call bind the new name or
\* parameter to the very cell its initializer or argument evaluated to, and
\* to a fresh cell holding the value when it evaluated to a value; an
\* identifier and a field access evaluate to a cell, a literal, an arithmetic
\* or comparison result and `#x` to a value. So `:=` and `=` through the new
\* name change the original variable or field, and do not after `#x` or a
\* computed initializer.
C20_SharedCells ==
    /\ [][(Resumed("LetStatement", "value") /\ ctrl'.m = "ret") =>
            /\ BoundTo(current_env, Top.node.name, ctrl.val)
            /\ SubSeq(cells', 1, Len(cells)) = cells]_vars
    /\ [][(Resumed("LetExpression", "value") /\ ctrl'.m = "eval") =>
            /\ BoundTo(current_env', Top.node.name, ctrl.val)
            /\ current_env' = Len(envs) + 1
            /\ SubSeq(cells', 1, Len(cells)) = cells]_vars
    /\ [][\A kind \in {"FunctionCall", "MethodCall"} : EntersBody(kind) =>
            LET params == CalleeParams(kind)
            IN /\ Len(CallArguments) = Len(params)
               /\ current_env' = Len(envs) + 1
               /\ \A i \in DOMAIN params :
                     (\A j \in DOMAIN params : j > i => params[j] # params[i])
                        => BoundTo(current_env', params[i], CallArguments[i])
               /\ SubSeq(cells', 1, Len(cells)) = cells]_vars
    /\ [][((Visiting("Identifier") \/ Resumed("MemberAccess", "obj"))
              /\ ctrl'.m = "ret") => ctrl'.val.t = "Cell"]_vars
    /\ [][((\/ Visiting("Number") \/ Visiting("BoolLiteral")
            \/ Visiting("StringLiteral") \/ Visiting("DerefExpr")
            \/ Resumed("BinaryOp", "right") \/ Resumed("Comparison", "right"))
              /\ ctrl'.m = "ret") => ctrl'.val.t # "Cell"]_vars
    /\ [](Yields(P_share_let, IntV(5)))
    /\ [](Yields(P_share_letexpr, IntV(5)))
    /\ [](Yields(P_share_param, IntV(7)))
    /\ [](Yields(P_share_field, IntV(3)))
    /\ [](Yields(P_share_members, IntV(3)))
    /\ [](Yields(P_copy_deref, IntV(1)))
    /\ [](Yields(P_copy_computed, IntV(1)))

\* `{ func set(p) = { p := 7 } let x = 1 set(x) x }` returned 7: the global
\* x and the parameter p of the call's frame are one cell
C20_Witness ==
    /\ Returned(P_share_param, IntV(7))
    /\ \E e \in DOMAIN envs :
          /\ e # global_env
          /\ "p" \in DOMAIN envs[e].variables
          /\ envs[e].variables["p"] = envs[global_env].variables["x"]
    /\ GlobalValue("x") = IntV(7)


\* ------------------------------------------------------------------------
\* Cells
\* ------------------------------------------------------------------------
\* the tags of the values a program computes with: int, bool, str, Instance
\* and None
PlainTags == {"int", "bool", "str", "Instance", "NoneType"}

\* C21: in every state each variable of each frame and each field of each
\* instance is bound to an existing cell, and each cell holds a plain value
\* (int, bool, string, instance or unset), never a cell; an instance held by
\* a cell exists. No step removes a cell, and a step that writes a cell or
\* makes a new one stores a plain value in it.
C21_NoNestedCells ==
    /\ [](/\ \A e \in DOMAIN envs : \A n \in DOMAIN envs[e].variables :
                envs[e].variables[n] \in DOMAIN cells
          /\ \A o \in DOMAIN instances : \A n \in DOMAIN instances[o].fields :
                instances[o].fields[n] \in DOMAIN cells
          /\ \A c \in DOMAIN cells :
                /\ cells[c].t \in PlainTags
                /\ cells[c].t = "Instance" => cells[c].o \in DOMAIN instances)
    /\ [][/\ Len(cells') >= Len(cells)
          /\ \A c \in DOMAIN cells' :
                (c \notin DOMAIN cells \/ cells'[c] # cells[c])
                   => cells'[c].t \in PlainTags]_vars
    /\ [](Yields(P_unwrap, IntV(2)))

\* `{ let x = 1 let y = 2 let r = y x := y x = r y := 3 x }` returned 2: r
\* was bound to the cell of y, and x received the values, not the cells, of
\* y and r
C21_Witness ==
    /\ Returned(P_unwrap, IntV(2))
    /\ envs[global_env].variables["r"] = envs[global_env].variables["y"]
    /\ envs[global_env].variables["x"] # envs[global_env].variables["y"]
    /\ GlobalValue("x") = IntV(2)
    /\ GlobalValue("y") = IntV(3)


\* ------------------------------------------------------------------------
\* Termination of the parser
\* ------------------------------------------------------------------------
\* the single passes of the loops of the parser: argument and parameter
\* lists, postfix chains, operator chains, the statements of a block or body,
\* the members of a class
Passes ==
    {"arguments_pass", "parameters_pass", "factor_pass", "term_pass",
     "arith_expr_pass", "statements_pass", "class_members_pass"}

\* the condition of the `while` whose body is the given pass, the current
\* token being tokens[pos]
LoopContinues(pass, tokens, pos) ==
    CASE pass \in {"arguments_pass", "parameters_pass"} -> TypeAt(tokens, pos) = "COMMA"
      [] pass = "factor_pass" -> TypeAt(tokens, pos) = "DOT"
      [] pass = "term_pass" -> TypeAt(tokens, pos) \in {"MULTIPLY", "DIVIDE"}
      [] pass = "arith_expr_pass" -> TypeAt(tokens, pos) \in {"PLUS", "MINUS"}
      [] pass \in {"statements_pass", "class_members_pass"} ->
            TypeAt(tokens, pos) # "RBRACE"

\* what a loop has collected when a pass starts: a node for the chains, the
\* fields and methods for a class, a list otherwise
Collected(pass) ==
    CASE pass \in {"factor_pass", "term_pass", "arith_expr_pass"} -> Identifier("a")
      [] pass = "class_members_pass" -> [fields |-> <<>>, methods |-> <<>>]
      [] OTHER -> <<>>

\* the methods of the parser that read tokens from the current position on
Methods ==
    {"expr", "statement", "arguments", "parameters", "primary", "factor", "term",
     "arith_expr", "comparison", "block_expression", "parse_class"}

\* the positions of a token list, the one of EOF included
Positions(tokens) == 0 .. (Len(tokens) - 1)

\* C22: on a token list closed by EOF, at every position: a parser method
\* either raises or returns with the read position not before where it
\* started and not past EOF; a pass of any parsing loop whose condition holds
\* either raises or ends at a later position, so that the tokens left bound
\* the passes of every loop; at EOF the loops over the statements of a block
\* and over the members of a class raise. parse() reaches its outcome, a node
\* or a syntax error, in the step after the parser was made, and an unclosed
\* block, function body or class body is a syntax error.
C22_ParserTerminates ==
    /\ [](ctrl.m = "lexed" =>
            \A pos \in Positions(ctrl.tokens) : \A method \in Methods \cup Passes :
               (method \in Passes => LoopContinues(method, ctrl.tokens, pos)) =>
                  LET r == call(method, ctrl.tokens, pos, Collected(method))
                  IN \/ IsExc(r)
                     \/ /\ r.pos \in Positions(ctrl.tokens)
                        /\ r.pos >= pos
                        /\ method \in Passes => r.pos > pos
                        /\ ~(/\ TypeAt(ctrl.tokens, pos) = "EOF"
                             /\ method \in {"statements_pass", "class_members_pass"}))
    /\ [][ctrl.m = "lexed" => ctrl'.m \in {"parsed", "syntax_error"}]_vars
    /\ [](ctrl.m = "parsed" => ctrl.pos \in Positions(ctrl.tokens))
    /\ [](ctrl.m = "parsed" =>
             ctrl.tokens \notin {T_unclosed_block, T_unclosed_class, T_unclosed_function})

\* `class A { let n:int` ended with a syntax error at EOF
C22_Witness ==
    /\ ctrl.m = "syntax_error"
    /\ ctrl.tokens = T_unclosed_class
    /\ ctrl.msg = "Expected field or method in class body"

====
